---- MODULE Spec2Model ----
(***************************************************************************)
(* A model of the distributed-task coordination store                      *)
(* (pkg/disttask/framework/storage/task_table.go): the task table, the     *)
(* subtask table, the step-transition protocol run by several schedulers   *)
(* and the subtask operations run by executors.                            *)
(*                                                                         *)
(* The tables are sets of rows.  A statement is one atomic step.  A        *)
(* transaction opened by WithNewTxn buffers its writes, keeps the row it   *)
(* updated locked until it ends, and applies the buffer only on commit.    *)
(* An update's affected-row count is the number of rows its predicate      *)
(* matched (every update refreshes a timestamp column).                    *)
(***************************************************************************)
EXTENDS Integers, Sequences, FiniteSets, TLC

VARIABLES
    tasks,          \* mysql.tidb_global_task: a set of rows
    subtasks,       \* mysql.tidb_background_subtask: a set of rows
    nextSubtaskID,  \* the auto-increment id of the subtask table
    pc,             \* per scheduler: where it is in its current call
    call,           \* per scheduler: the call's arguments, locals and outcome
    planLen,        \* per step: how many subtasks the scheduling policy generates
    ret,            \* the outcome of the executor call made by the last step
    nextTaskID,     \* the auto-increment id of the task table
    taskHistory,    \* mysql.tidb_global_task_history: a set of rows
    subtaskHistory, \* mysql.tidb_background_subtask_history: a set of rows
    nodeMeta,       \* mysql.dist_framework_meta: a set of rows, one per host
    now,            \* the store's clock, in seconds (UNIX_TIMESTAMP())
    returned        \* the calls of the racing executor and balancer that returned

\* the tables and counters the step-transition protocol and the subtask
\* operations leave alone
rest == <<nextTaskID, taskHistory, subtaskHistory, nodeMeta, now, returned>>

vars == <<tasks, subtasks, nextSubtaskID, pc, call, planLen, ret, rest>>

----
\* Bounds of the model.

\* the longest subtask list a caller passes
MaxSubtasks == 2
\* steps are StepInit..MaxStep
MaxStep == 2
\* the subtask table holds at most this many rows
MaxRows == 3
\* a caller repeats one call at most this many times
MaxAttempts == 2
\* the configured kv.TxnTotalSizeLimit, in bytes
TxnTotalSizeLimit == 2
\* how many times the clock is advanced
MaxTicks == 3
\* the most CPUs a node reports
MaxCPU == 2

\* the number of tasks that are created
MaxNewTasks == 1

\* proto.MaxConcurrentTask, the number of tasks scheduled at a time
MaxConcurrentTask == 1

----
\* Constants of the program.

defaultSubtaskKeepDays == 14
maxSubtaskBatchSize == 16 * 1024 * 1024

StepInit == 0

\* proto.NormalPriority: an integer, lower priorities sort first
NormalPriority == 2
TaskStatePending == "pending"
TaskStateRunning == "running"
TaskStateReverting == "reverting"
TaskStateSucceed == "succeed"
TaskStateCancelling == "cancelling"
TaskStatePausing == "pausing"
TaskStateResuming == "resuming"
TaskStatePaused == "paused"
TaskStateFailed == "failed"
TaskStateReverted == "reverted"

SubtaskStatePending == "pending"
SubtaskStateRunning == "running"
SubtaskStateSucceed == "succeed"
SubtaskStateFailed == "failed"
SubtaskStateCanceled == "canceled"
SubtaskStatePaused == "paused"
SubtaskStateRevertPending == "revert_pending"

\* the errors the calls return
NoError == "nil"
StoreError == "store error"
ErrUnstableSubtasks == "unstable subtasks"
ErrSubtaskNotFound == "subtask not found"
ErrNoManagedNodes == "no managed nodes"
ErrNoUsableCapacity == "no managed node have enough resource for dist task"
ErrTaskNotFound == "task not found"
ErrTaskAlreadyExists == "task already exists"
ErrConcurrencyExceeds == "task concurrency larger than cpu count of managed node"
ErrInvalidTransform == "invalid task state transform, state already changed"

----
\* The actors and the values they pass.

Schedulers == {"s1", "s2"}
Nodes == {"n1", "n2"}
TaskIDs == {1, 2}
Steps == StepInit..MaxStep
CallerTaskStates == {TaskStatePending, TaskStateRunning}
\* the steps the single caller of SpecSeq names
CallerSteps == {StepInit, StepInit + 1}

Min(a, b) == IF a < b THEN a ELSE b

\* the meta of the i-th subtask of a step: one byte for odd i, two for even i
SubtaskMeta(i) == IF i % 2 = 1 THEN <<i>> ELSE <<i, i>>

\* the node the i-th subtask of a step is scheduled on
SubtaskExec(i) == IF i % 2 = 1 THEN "n1" ELSE "n2"

\* the ordered subtask list a scheduler generates for (taskID, step): the same
\* list on every call, n subtasks long
NewSubtasks(taskID, step, n) ==
    [i \in 1..n |->
        [ID |-> 0, Step |-> step, TaskID |-> taskID, ExecID |-> SubtaskExec(i),
         Meta |-> SubtaskMeta(i), State |-> SubtaskStatePending,
         Concurrency |-> 1, Ordinal |-> i]]

\* a proto.Task object a caller may hold
TaskObjects ==
    [ID : TaskIDs, State : CallerTaskStates, Step : CallerSteps, Meta : {"m1"}]

NoTask == [ID |-> 0, State |-> "", Step |-> 0, Meta |-> ""]

\* An error value: a plain Go error or a normalized *errors.Error with a code,
\* possibly wrapped by errors.Trace or errors.Annotate.
NilErr == [kind |-> "nil", wrapped |-> FALSE, code |-> 0, msg |-> ""]

CallerErrors ==
    {NilErr,
     [kind |-> "plain", wrapped |-> FALSE, code |-> 0, msg |-> "e1"],
     [kind |-> "plain", wrapped |-> TRUE, code |-> 0, msg |-> "e1"],
     [kind |-> "normalized", wrapped |-> FALSE, code |-> 1, msg |-> "e2"]}

\* errors.Cause: the error under the wrappers
Cause(err) == [err EXCEPT !.wrapped = FALSE]

\* errors.Normalize(text): a normalized error with that message and no code
Normalize(text) == [kind |-> "normalized", wrapped |-> FALSE, code |-> 0, msg |-> text]

\* serializeErr: nil for nil, else the JSON of the normalized cause; the
\* column holds NULL (no element) or the bytes (one element)
serializeErr(err) ==
    IF err = NilErr THEN <<>>
    ELSE LET originErr == Cause(err)
             tErr == IF originErr.kind = "normalized" THEN originErr
                     ELSE Normalize(originErr.msg)
         IN <<[code |-> tErr.code, message |-> tErr.msg]>>

----
\* Rows and row conversions.

\* the row CreateTaskWithSession's insert statement writes, with the id the
\* store assigns
InsertedTaskRow(id, key, tp, concurrency, meta) ==
    [id |-> id, task_key |-> key, type |-> tp, state |-> TaskStatePending,
     priority |-> NormalPriority, concurrency |-> concurrency,
     step |-> StepInit, meta |-> meta, create_time |-> now,
     start_time |-> <<>>, error |-> <<>>]

\* the row of a task created under key "k1" with concurrency 1
NewTaskRow(id, meta) == InsertedTaskRow(id, "k1", "tp", 1, meta)

row2Task(r) == [ID |-> r.id, State |-> r.state, Step |-> r.step, Meta |-> r.meta]

\* the subtask rows of (taskID, step)
SubtaskRows(taskID, step) ==
    {r \in subtasks : r.task_key = taskID /\ r.step = step}

\* select count(1) from tidb_background_subtask where task_key = ? and step = ?
CountSubtasks(taskID, step) == Cardinality(SubtaskRows(taskID, step))

RECURSIVE SortByID(_)
SortByID(rows) ==
    IF rows = {} THEN <<>>
    ELSE LET r == CHOOSE x \in rows : \A y \in rows : x.id <= y.id
         IN <<r>> \o SortByID(rows \ {r})

\* what a stored subtask row says of the object it was inserted from
RowContent(r) ==
    [Step |-> r.step, TaskID |-> r.task_key, ExecID |-> r.exec_id,
     Meta |-> r.meta, Ordinal |-> r.ordinal]

ObjContent(o) ==
    [Step |-> o.Step, TaskID |-> o.TaskID, ExecID |-> o.ExecID,
     Meta |-> o.Meta, Ordinal |-> o.Ordinal]

\* the rows of (taskID, step), in id order, as contents
PersistedList(taskID, step) ==
    LET s == SortByID(SubtaskRows(taskID, step))
    IN [i \in 1..Len(s) |-> RowContent(s[i])]

ListContent(list) == [i \in 1..Len(list) |-> ObjContent(list[i])]

----
\* The statements of the step-transition protocol.

\* a predicate that forgets the state and the step
TaskMatchesIDOnly(r, task) == r.id = task.ID

\* where id = task.ID and state = task.State and step = task.Step
TaskMatches(r, task) ==
    r.id = task.ID /\ r.state = task.State /\ r.step = task.Step

\* the number of rows updateTaskStateStep's statement affects
updateTaskStateStepAffected(tbl, task) ==
    Cardinality({r \in tbl : TaskMatches(r, task)})

\* an update that stamps the start time whatever the task's state
updateTaskStateStepStamping(tbl, task, nextState, nextStep) ==
    {IF TaskMatches(r, task)
        THEN [r EXCEPT !.state = nextState, !.step = nextStep,
                       !.start_time = <<now>>, !.meta = task.Meta]
        ELSE r : r \in tbl}

\* an update that moves the row to the step after its own
updateTaskStateStepToFollowing(tbl, task, nextState, nextStep) ==
    {IF TaskMatches(r, task)
        THEN [r EXCEPT !.state = nextState, !.step = r.step + 1, !.meta = task.Meta]
        ELSE r : r \in tbl}

\* updateTaskStateStep's statement, applied to the task table
updateTaskStateStep(tbl, task, nextState, nextStep) ==
    {IF TaskMatches(r, task)
        THEN [r EXCEPT !.state = nextState,
                       !.step = nextStep,
                       !.start_time = IF task.State = TaskStatePending
                                         THEN <<now>> ELSE @,
                       !.meta = task.Meta]
        ELSE r : r \in tbl}

\* the rows insertSubtasks's statement inserts, ids from firstID on
insertSubtasks(list, firstID) ==
    {[id |-> firstID + i - 1,
      step |-> list[i].Step,
      task_key |-> list[i].TaskID,
      exec_id |-> list[i].ExecID,
      meta |-> list[i].Meta,
      state |-> TaskStatePending,
      concurrency |-> list[i].Concurrency,
      ordinal |-> list[i].Ordinal,
      error |-> <<>>,
      state_update_time |-> <<>>] : i \in 1..Len(list)}

\* the byte ceiling of one batch
maxSize == Min(TxnTotalSizeLimit, maxSubtaskBatchSize)

RECURSIVE splitLoop(_, _, _, _, _)
splitLoop(list, i, res, currBatch, size) ==
    IF i > Len(list)
        THEN IF Len(currBatch) > 0 THEN Append(res, currBatch) ELSE res
        ELSE LET s == list[i]
                 flush == size + Len(s.Meta) > maxSize
                 res1 == IF flush THEN Append(res, currBatch) ELSE res
                 batch1 == IF flush THEN <<>> ELSE currBatch
                 size1 == IF flush THEN 0 ELSE size
             IN splitLoop(list, i + 1, res1, Append(batch1, s), size1 + Len(s.Meta))

\* a split that puts every subtask in one batch
splitSubtasksOneBatch(list) == <<list>>

splitSubtasks(list) == splitLoop(list, 1, <<>>, <<>>, 0)

\* a transaction that commits whatever fn returned
WithNewTxnEndAlwaysCommit(err) == "commit"

\* the statement WithNewTxn ends the transaction with
WithNewTxnEnd(err) == IF err = NoError THEN "commit" ELSE "rollback"

\* a SwitchTaskStep that does not look at the affected rows
SwitchTaskStepInsertsAlways(affected) == TRUE

\* SwitchTaskStep inserts the subtasks only when the update affected a row
SwitchTaskStepInserts(affected) == affected # 0

\* a check that also rejects a fully persisted list
IsUnstableOrEqual(existingTaskCnt, list) == existingTaskCnt >= Len(list)

\* SwitchTaskStepInBatch's check of the persisted count against the list
IsUnstable(existingTaskCnt, list) == existingTaskCnt > Len(list)

\* a call that inserts the whole list again
RemainingSubtasksNoSkip(list, existingTaskCnt) == list

\* subtasks[existingTaskCnt:], the part of the list taken as not yet inserted
RemainingSubtasks(list, existingTaskCnt) ==
    SubSeq(list, existingTaskCnt + 1, Len(list))

----
\* The state of a call.

EmptyCall ==
    [op |-> "none", task |-> NoTask, nextState |-> "", nextStep |-> 0,
     subtasks |-> <<>>, affected |-> -1, existing |-> -1, batches |-> <<>>,
     inserted |-> 0, wrote |-> FALSE, result |-> "none",
     pre |-> [tasks |-> {}, subtasks |-> {}],
     attempt |-> 0, cnt0 |-> 0, fresh0 |-> FALSE,
     prevResult |-> "none", prevAffected |-> -1]

NoRet ==
    [op |-> "none", id |-> 0, exec |-> "", task |-> 0, err |-> NilErr,
     result |-> "none", arg |-> <<>>, val |-> <<>>]

\* a transaction that updated the task row holds its lock until it ends
TaskRowLocked(id) ==
    \E s \in Schedulers : pc[s] = "sts_updated" /\ call[s].task.ID = id

RECURSIVE TotalLen(_)
TotalLen(batches) ==
    IF batches = <<>> THEN 0 ELSE Len(Head(batches)) + TotalLen(Tail(batches))

\* the rows the calls in progress may still insert
InFlightRows ==
    LET S == {s \in Schedulers : pc[s] \in {"sts_updated", "batch"}}
        n(s) == IF pc[s] = "batch" THEN TotalLen(call[s].batches)
                                   ELSE Len(call[s].subtasks)
        RECURSIVE Sum(_)
        Sum(T) == IF T = {} THEN 0
                  ELSE LET t == CHOOSE x \in T : TRUE IN n(t) + Sum(T \ {t})
    IN Sum(S)

\* the subtask table has room for n more rows
HasRoom(n) == Cardinality(subtasks) + InFlightRows + n <= MaxRows

\* the list the policy generates for step p of task 1
PlannedList(p) == NewSubtasks(1, p, planLen[p])

\* the call starts: it records the tables it found; a first attempt also records
\* the count of (task, nextStep) and whether its task object matched the live
\* row, a repeated one carries the outcome of the attempt before it
StartCall(s, op, nextState, nextStep, list) ==
    LET c == call[s]
        task == c.task
        first == pc[s] = "ready"
    IN [EmptyCall EXCEPT
           !.op = op, !.task = task, !.nextState = nextState,
           !.nextStep = nextStep, !.subtasks = list,
           !.pre = [tasks |-> tasks, subtasks |-> subtasks],
           !.attempt = IF first THEN 1 ELSE c.attempt,
           !.cnt0 = IF first THEN CountSubtasks(task.ID, nextStep) ELSE c.cnt0,
           !.fresh0 = IF first THEN updateTaskStateStepAffected(tasks, task) = 1
                               ELSE c.fresh0,
           !.prevResult = IF first THEN "none" ELSE c.prevResult,
           !.prevAffected = IF first THEN -1 ELSE c.prevAffected]

\* a call may start from a task object just obtained, or repeat the call
\* that ended, with the arguments it had
MayStart(s, op, nextState, nextStep, list) ==
    /\ \/ pc[s] = "ready"
       \/ /\ pc[s] = "retry"
          /\ call[s].op = op
          /\ call[s].nextState = nextState
          /\ call[s].nextStep = nextStep
          /\ call[s].subtasks = list

----
\* Obtaining a task object.

\* GetTaskByID: the scheduler reads the live row
GetTaskByID(s, id) ==
    /\ pc[s] = "idle"
    /\ \E r \in tasks :
          /\ r.id = id
          /\ call' = [call EXCEPT ![s] = [EmptyCall EXCEPT !.task = row2Task(r)]]
    /\ pc' = [pc EXCEPT ![s] = "ready"]
    /\ ret' = NoRet
    /\ UNCHANGED <<tasks, subtasks, nextSubtaskID, planLen, rest>>

\* the caller passes a task object of its own making
HoldTask(s, task) ==
    /\ pc[s] = "idle"
    /\ call' = [call EXCEPT ![s] = [EmptyCall EXCEPT !.task = task]]
    /\ pc' = [pc EXCEPT ![s] = "ready"]
    /\ ret' = NoRet
    /\ UNCHANGED <<tasks, subtasks, nextSubtaskID, planLen, rest>>

----
\* SwitchTaskStep: one transaction.

\* the transaction ends with err: its buffered writes (the task-row update,
\* and the subtask rows when the insert was executed) are applied on commit
EndTxn(s, c, err, insertDone) ==
    LET commit == WithNewTxnEnd(err) = "commit"
        n == IF insertDone THEN Len(c.subtasks) ELSE 0
    IN /\ tasks' = IF commit
                      THEN updateTaskStateStep(tasks, c.task, c.nextState, c.nextStep)
                      ELSE tasks
       /\ subtasks' = IF commit /\ insertDone
                         THEN subtasks \cup insertSubtasks(c.subtasks, nextSubtaskID)
                         ELSE subtasks
       /\ nextSubtaskID' = IF commit THEN nextSubtaskID + n ELSE nextSubtaskID
       /\ call' = [call EXCEPT ![s] =
                     [c EXCEPT !.result = err,
                               !.wrote = commit /\ c.affected # 0,
                               !.inserted = IF commit THEN n ELSE 0]]
       /\ pc' = [pc EXCEPT ![s] = "done"]

\* begin; updateTaskStateStep; with no row affected, return nil and commit
SwitchTaskStep_update(s, nextState, nextStep, list) ==
    /\ MayStart(s, "SwitchTaskStep", nextState, nextStep, list)
    /\ ~TaskRowLocked(call[s].task.ID)
    /\ LET c0 == StartCall(s, "SwitchTaskStep", nextState, nextStep, list)
           c == [c0 EXCEPT !.affected = updateTaskStateStepAffected(tasks, c0.task)]
       IN IF SwitchTaskStepInserts(c.affected)
             THEN /\ HasRoom(Len(list))
                  /\ call' = [call EXCEPT ![s] = c]
                  /\ pc' = [pc EXCEPT ![s] = "sts_updated"]
             ELSE /\ call' = [call EXCEPT ![s] = [c EXCEPT !.result = NoError]]
                  /\ pc' = [pc EXCEPT ![s] = "done"]
    /\ ret' = NoRet
    /\ UNCHANGED <<tasks, subtasks, nextSubtaskID, planLen, rest>>

\* insertSubtasks succeeds; return nil; commit
SwitchTaskStep_insert(s) ==
    /\ pc[s] = "sts_updated"
    /\ EndTxn(s, call[s], NoError, TRUE)
    /\ ret' = NoRet
    /\ UNCHANGED <<planLen, rest>>

\* insertSubtasks's statement fails; the error is returned; rollback
SwitchTaskStep_insertErr(s) ==
    /\ pc[s] = "sts_updated"
    /\ Len(call[s].subtasks) > 0
    /\ EndTxn(s, call[s], StoreError, FALSE)
    /\ ret' = NoRet
    /\ UNCHANGED <<planLen, rest>>

----
\* SwitchTaskStepInBatch: one session, every statement its own transaction.

\* the count statement, the unstable check and the split
SwitchTaskStepInBatch_count(s, nextState, nextStep, list) ==
    /\ MayStart(s, "SwitchTaskStepInBatch", nextState, nextStep, list)
    /\ LET c0 == StartCall(s, "SwitchTaskStepInBatch", nextState, nextStep, list)
           existingTaskCnt == CountSubtasks(c0.task.ID, nextStep)
           c == [c0 EXCEPT !.existing = existingTaskCnt]
       IN IF IsUnstable(existingTaskCnt, list)
             THEN /\ call' = [call EXCEPT ![s] = [c EXCEPT !.result = ErrUnstableSubtasks]]
                  /\ pc' = [pc EXCEPT ![s] = "done"]
             ELSE /\ HasRoom(Len(RemainingSubtasks(list, existingTaskCnt)))
                  /\ call' = [call EXCEPT ![s] =
                        [c EXCEPT !.batches =
                            splitSubtasks(RemainingSubtasks(list, existingTaskCnt))]]
                  /\ pc' = [pc EXCEPT ![s] = "batch"]
    /\ ret' = NoRet
    /\ UNCHANGED <<tasks, subtasks, nextSubtaskID, planLen, rest>>

\* the count statement fails: the error is returned before anything is written
SwitchTaskStepInBatch_countErr(s, nextState, nextStep, list) ==
    /\ MayStart(s, "SwitchTaskStepInBatch", nextState, nextStep, list)
    /\ call' = [call EXCEPT ![s] =
          [StartCall(s, "SwitchTaskStepInBatch", nextState, nextStep, list)
              EXCEPT !.result = StoreError]]
    /\ pc' = [pc EXCEPT ![s] = "done"]
    /\ ret' = NoRet
    /\ UNCHANGED <<tasks, subtasks, nextSubtaskID, planLen, rest>>

\* the next batch is inserted
SwitchTaskStepInBatch_insert(s) ==
    /\ pc[s] = "batch"
    /\ call[s].batches # <<>>
    /\ LET batch == Head(call[s].batches)
       IN /\ subtasks' = subtasks \cup insertSubtasks(batch, nextSubtaskID)
          /\ nextSubtaskID' = nextSubtaskID + Len(batch)
          /\ call' = [call EXCEPT ![s].batches = Tail(@),
                                  ![s].inserted = @ + Len(batch)]
    /\ ret' = NoRet
    /\ UNCHANGED <<tasks, pc, planLen, rest>>

\* the next batch's statement fails: the error is returned, the batches
\* inserted before it stay
SwitchTaskStepInBatch_insertErr(s) ==
    /\ pc[s] = "batch"
    /\ call[s].batches # <<>>
    /\ Len(Head(call[s].batches)) > 0
    /\ call' = [call EXCEPT ![s].result = StoreError]
    /\ pc' = [pc EXCEPT ![s] = "done"]
    /\ ret' = NoRet
    /\ UNCHANGED <<tasks, subtasks, nextSubtaskID, planLen, rest>>

\* an update that does not wait for the batches
EveryBatchInsertedOrNot(batches) == TRUE

\* the loop over the batches has ended without an error
EveryBatchInserted(batches) == batches = <<>>

\* every batch is in: updateTaskStateStep
SwitchTaskStepInBatch_update(s) ==
    /\ pc[s] = "batch"
    /\ EveryBatchInserted(call[s].batches)
    /\ ~TaskRowLocked(call[s].task.ID)
    /\ LET c == call[s]
           affected == updateTaskStateStepAffected(tasks, c.task)
       IN /\ tasks' = updateTaskStateStep(tasks, c.task, c.nextState, c.nextStep)
          /\ call' = [call EXCEPT ![s].affected = affected,
                                  ![s].wrote = affected # 0,
                                  ![s].result = NoError]
    /\ pc' = [pc EXCEPT ![s] = "done"]
    /\ ret' = NoRet
    /\ UNCHANGED <<subtasks, nextSubtaskID, planLen, rest>>

----
\* After a call.

\* the caller drops the call and its task object
Return(s) ==
    /\ pc[s] = "done"
    /\ pc' = [pc EXCEPT ![s] = "idle"]
    /\ call' = [call EXCEPT ![s] = EmptyCall]
    /\ ret' = NoRet
    /\ UNCHANGED <<tasks, subtasks, nextSubtaskID, planLen, rest>>

\* the caller repeats the call with the same arguments
Retry(s) ==
    /\ pc[s] = "done"
    /\ call[s].attempt < MaxAttempts
    /\ pc' = [pc EXCEPT ![s] = "retry"]
    /\ call' = [call EXCEPT ![s] =
                  [@ EXCEPT !.attempt = @ + 1,
                            !.prevResult = call[s].result,
                            !.prevAffected = call[s].affected,
                            !.result = "none", !.affected = -1, !.existing = -1,
                            !.batches = <<>>, !.inserted = 0, !.wrote = FALSE,
                            !.pre = [tasks |-> {}, subtasks |-> {}]]]
    /\ ret' = NoRet
    /\ UNCHANGED <<tasks, subtasks, nextSubtaskID, planLen, rest>>

----
\* The subtask operations of the executors and of the balancer.

\* an ownership guard that forgets the owner
OwnedByAnyone(r, subtaskID, execID) == r.id = subtaskID

\* where id = subtaskID and exec_id = execID
OwnedBy(r, subtaskID, execID) == r.id = subtaskID /\ r.exec_id = execID

\* the transaction of StartSubtask and what it returns: one update; no
\* affected row is ErrSubtaskNotFound
StartSubtaskTxn(subtaskID, execID) ==
    LET M == {r \in subtasks : OwnedBy(r, subtaskID, execID)}
        err == IF Cardinality(M) = 0 THEN ErrSubtaskNotFound ELSE NoError
    IN /\ subtasks' = IF WithNewTxnEnd(err) = "commit"
                         THEN {IF r \in M
                                  THEN [r EXCEPT !.state = TaskStateRunning,
                                                 !.state_update_time = <<now>>]
                                  ELSE r : r \in subtasks}
                         ELSE subtasks
       /\ ret' = [NoRet EXCEPT !.op = "StartSubtask", !.id = subtaskID,
                               !.exec = execID, !.result = err]

\* StartSubtask
StartSubtask(subtaskID, execID) ==
    /\ StartSubtaskTxn(subtaskID, execID)
    /\ UNCHANGED <<tasks, nextSubtaskID, pc, call, planLen, rest>>

\* an update without its limit
NoLimit(M) == {M}

\* limit 1: the statement updates one of the rows its predicate matches, the
\* store chooses which
LimitOne(M) == IF M = {} THEN {{}} ELSE {{r} : r \in M}

\* a predicate that forgets the state
ActiveOnAnyState(r, execID, taskID) == r.exec_id = execID /\ r.task_key = taskID

\* where exec_id = execID and task_key = taskID and state in (pending, running)
ActiveOn(r, execID, taskID) ==
    /\ r.exec_id = execID
    /\ r.task_key = taskID
    /\ r.state \in {SubtaskStatePending, SubtaskStateRunning}

\* FailSubtask: nothing for a nil error, else one update with limit 1
FailSubtask(execID, taskID, err) ==
    /\ IF err = NilErr
          THEN subtasks' = subtasks
          ELSE \E T \in LimitOne({r \in subtasks : ActiveOn(r, execID, taskID)}) :
                  subtasks' = {IF r \in T
                                  THEN [r EXCEPT !.state = SubtaskStateFailed,
                                                 !.error = serializeErr(err),
                                                 !.state_update_time = <<now>>]
                                  ELSE r : r \in subtasks}
    /\ ret' = [NoRet EXCEPT !.op = "FailSubtask", !.exec = execID,
                            !.task = taskID, !.err = err, !.result = NoError]
    /\ UNCHANGED <<tasks, nextSubtaskID, pc, call, planLen, rest>>

\* FinishSubtask: one update by id and exec_id, the affected rows not looked at
FinishSubtask(execID, id, meta) ==
    /\ subtasks' = {IF OwnedBy(r, id, execID)
                       THEN [r EXCEPT !.meta = meta, !.state = TaskStateSucceed,
                                      !.state_update_time = <<now>>]
                       ELSE r : r \in subtasks}
    /\ ret' = [NoRet EXCEPT !.op = "FinishSubtask", !.id = id, !.exec = execID,
                            !.arg = <<meta>>, !.result = NoError]
    /\ UNCHANGED <<tasks, nextSubtaskID, pc, call, planLen, rest>>

\* a reassignment that forgets the state
HasSubtaskID(r, subtask) == r.id = subtask.ID

\* where id = subtask.ID and state = subtask.State
InRecordedState(r, subtask) == r.id = subtask.ID /\ r.state = subtask.State

\* the table after the updates of UpdateSubtasksExecIDs for list[i..]
RECURSIVE UpdateExecIDsFrom(_, _, _)
UpdateExecIDsFrom(tbl, list, i) ==
    IF i > Len(list) THEN tbl
    ELSE UpdateExecIDsFrom(
             {IF InRecordedState(r, list[i])
                 THEN [r EXCEPT !.exec_id = list[i].ExecID]
                 ELSE r : r \in tbl},
             list, i + 1)

\* the transaction of UpdateSubtasksExecIDs and what it returns: nothing for
\* an empty list, else one update per subtask object
UpdateSubtasksExecIDsTxn(list) ==
    /\ subtasks' = IF Len(list) = 0 THEN subtasks
                   ELSE UpdateExecIDsFrom(subtasks, list, 1)
    /\ ret' = [NoRet EXCEPT !.op = "UpdateSubtasksExecIDs", !.result = NoError]

\* UpdateSubtasksExecIDs
UpdateSubtasksExecIDs(list) ==
    /\ UpdateSubtasksExecIDsTxn(list)
    /\ UNCHANGED <<tasks, nextSubtaskID, pc, call, planLen, rest>>

\* the node a subtask is moved to from the node it was scheduled on
OtherNode(e) == IF e = "n1" THEN "n2" ELSE "n1"

\* the subtask object the balancer passes to move subtask id, read while the
\* subtask was pending on the node it was scheduled on
MovedSubtask(id) ==
    [ID |-> id, Step |-> 1, TaskID |-> 1, ExecID |-> OtherNode(SubtaskExec(id)),
     Meta |-> <<>>, State |-> SubtaskStatePending, Concurrency |-> 1,
     Ordinal |-> id]

\* the call op for subtask id has returned
HasReturned(op, id) == \E c \in returned : c.op = op /\ c.id = id

\* what the racing calls leave alone
RaceFrame ==
    UNCHANGED <<tasks, nextSubtaskID, pc, call, planLen, nextTaskID,
                taskHistory, subtaskHistory, nodeMeta, now>>

\* the executor of the node a pending subtask was scheduled on starts it, once
Race_StartSubtask(id) ==
    /\ \E r \in subtasks : r.id = id
    /\ ~HasReturned("StartSubtask", id)
    /\ StartSubtaskTxn(id, SubtaskExec(id))
    /\ returned' = returned \cup
          {[op |-> "StartSubtask", id |-> id, result |-> ret'.result]}
    /\ RaceFrame

\* the balancer moves the subtask it read as pending to the other node, once
Race_UpdateSubtasksExecIDs(id) ==
    /\ \E r \in subtasks : r.id = id
    /\ ~HasReturned("UpdateSubtasksExecIDs", id)
    /\ UpdateSubtasksExecIDsTxn(<<MovedSubtask(id)>>)
    /\ returned' = returned \cup
          {[op |-> "UpdateSubtasksExecIDs", id |-> id, result |-> ret'.result]}
    /\ RaceFrame

\* the subtask objects a balancer may pass: an id, the node it moves the
\* subtask to and the state it last read
BalancedSubtasks ==
    {[ID |-> id, Step |-> 1, TaskID |-> 1, ExecID |-> e, Meta |-> <<>>,
      State |-> st, Concurrency |-> 1, Ordinal |-> id] :
        id \in 1..MaxSubtasks, e \in Nodes,
        st \in {SubtaskStatePending, SubtaskStateRunning}}

\* a revert that forgets the owner
StillRunningAnywhere(r, subtask) ==
    r.id = subtask.ID /\ r.state = SubtaskStateRunning

\* where id = subtask.ID and exec_id = subtask.ExecID and state = running
StillRunningOn(r, subtask) ==
    r.id = subtask.ID /\ r.exec_id = subtask.ExecID /\ r.state = SubtaskStateRunning

\* the table after the updates of RunningSubtasksBack2Pending for list[i..]
RECURSIVE Back2PendingFrom(_, _, _)
Back2PendingFrom(tbl, list, i) ==
    IF i > Len(list) THEN tbl
    ELSE Back2PendingFrom(
             {IF StillRunningOn(r, list[i])
                 THEN [r EXCEPT !.state = SubtaskStatePending,
                                !.state_update_time = <<now>>]
                 ELSE r : r \in tbl},
             list, i + 1)

\* RunningSubtasksBack2Pending: nothing for an empty list, else one
\* transaction with one update per subtask object
RunningSubtasksBack2Pending(list) ==
    /\ subtasks' = IF Len(list) = 0 THEN subtasks
                   ELSE Back2PendingFrom(subtasks, list, 1)
    /\ ret' = [NoRet EXCEPT !.op = "RunningSubtasksBack2Pending", !.arg = list,
                            !.result = NoError]
    /\ UNCHANGED <<tasks, nextSubtaskID, pc, call, planLen, rest>>

\* the subtask objects a scheduler may revert: the id and owner it read when
\* the subtask was running
RevertedSubtasks == {o \in BalancedSubtasks : o.State = SubtaskStateRunning}

----
\* The node registry.

\* the hosts that register, and one that never does, in the order of the
\* host column
HostOrder == <<"n1", "n2", "n3">>

Roles == {"", "background", "other"}

CPUCounts == 0..MaxCPU

\* on duplicate key update cpu_count = cpuCount, role = role
OnDuplicateInit(old, role, cpuCount) ==
    [old EXCEPT !.cpu_count = cpuCount, !.role = role]

\* a recovery that also takes the role
OnDuplicateRecoverWithRole(old, role, cpuCount) ==
    [old EXCEPT !.cpu_count = cpuCount, !.role = role]

\* on duplicate key update cpu_count = cpuCount
OnDuplicateRecover(old, role, cpuCount) ==
    [old EXCEPT !.cpu_count = cpuCount]

\* insert into mysql.dist_framework_meta(host, role, cpu_count) ... on
\* duplicate key update: the row of the host after the statement
Upserted(execID, role, cpuCount, recover) ==
    LET old == {r \in nodeMeta : r.host = execID}
    IN IF old = {}
          THEN {[host |-> execID, role |-> role, cpu_count |-> cpuCount]}
          ELSE {IF recover THEN OnDuplicateRecover(r, role, cpuCount)
                           ELSE OnDuplicateInit(r, role, cpuCount) : r \in old}

\* InitMeta on a node that reports cpuCount CPUs
InitMeta(execID, role, cpuCount) ==
    /\ nodeMeta' = {r \in nodeMeta : r.host # execID}
                       \cup Upserted(execID, role, cpuCount, FALSE)
    /\ ret' = [NoRet EXCEPT !.op = "InitMeta", !.exec = execID,
                            !.arg = <<role, cpuCount>>, !.result = NoError]
    /\ UNCHANGED <<tasks, subtasks, nextSubtaskID, pc, call, planLen,
                   nextTaskID, taskHistory, subtaskHistory, now, returned>>

\* RecoverMeta on a node that reports cpuCount CPUs
RecoverMeta(execID, role, cpuCount) ==
    /\ nodeMeta' = {r \in nodeMeta : r.host # execID}
                       \cup Upserted(execID, role, cpuCount, TRUE)
    /\ ret' = [NoRet EXCEPT !.op = "RecoverMeta", !.exec = execID,
                            !.arg = <<role, cpuCount>>, !.result = NoError]
    /\ UNCHANGED <<tasks, subtasks, nextSubtaskID, pc, call, planLen,
                   nextTaskID, taskHistory, subtaskHistory, now, returned>>

\* a delete that takes every row
InAnyList(host, nodes) == Len(nodes) >= 0

\* where host in (nodes)
InList(host, nodes) == \E i \in 1..Len(nodes) : nodes[i] = host

\* DeleteDeadNodes: nothing for an empty list, else one transaction with
\* one delete
DeleteDeadNodes(nodes) ==
    /\ nodeMeta' = IF Len(nodes) = 0 THEN nodeMeta
                   ELSE {r \in nodeMeta : ~InList(r.host, nodes)}
    /\ ret' = [NoRet EXCEPT !.op = "DeleteDeadNodes", !.arg = nodes,
                            !.result = NoError]
    /\ UNCHANGED <<tasks, subtasks, nextSubtaskID, pc, call, planLen,
                   nextTaskID, taskHistory, subtaskHistory, now, returned>>

\* getAllNodesWithSession: select host, role, cpu_count ... order by host
getAllNodesWithSession ==
    LET hosts == SelectSeq(HostOrder, LAMBDA h : \E r \in nodeMeta : r.host = h)
        row(h) == CHOOSE r \in nodeMeta : r.host = h
    IN [i \in 1..Len(hosts) |->
           [ID |-> hosts[i], Role |-> row(hosts[i]).role,
            CPUCount |-> row(hosts[i]).cpu_count]]

\* a view that prefers the nodes without a role
ManagedPreferNoRole(background, norole) ==
    IF Len(norole) = 0 THEN background ELSE norole

\* the nodes of role "background", or when there is none those of no role
ManagedOf(background, norole) ==
    IF Len(background) = 0 THEN norole ELSE background

\* getManagedNodesWithSession
getManagedNodesWithSession ==
    LET nodes == getAllNodesWithSession
    IN ManagedOf(SelectSeq(nodes, LAMBDA n : n.Role = "background"),
                 SelectSeq(nodes, LAMBDA n : n.Role = ""))

\* the largest CPU count of the nodes, 0 when none is positive
MaxPositive(nodes) ==
    LET S == {nodes[i].CPUCount : i \in 1..Len(nodes)} \cup {0}
    IN CHOOSE m \in S : \A x \in S : x <= m

\* the CPU count of the first node that has a positive one, 0 when none has
FirstPositive(nodes) ==
    LET S == {i \in 1..Len(nodes) : nodes[i].CPUCount > 0}
    IN IF S = {} THEN 0
       ELSE nodes[CHOOSE i \in S : \A j \in S : i <= j].CPUCount

\* getCPUCountOfManagedNode: the count and the error
getCPUCountOfManagedNode ==
    LET nodes == getManagedNodesWithSession
        cpuCount == FirstPositive(nodes)
    IN IF Len(nodes) = 0 THEN [cnt |-> 0, err |-> ErrNoManagedNodes]
       ELSE IF cpuCount = 0 THEN [cnt |-> 0, err |-> ErrNoUsableCapacity]
       ELSE [cnt |-> cpuCount, err |-> NoError]

\* GetManagedNodes
GetManagedNodes ==
    /\ ret' = [NoRet EXCEPT !.op = "GetManagedNodes",
                            !.val = getManagedNodesWithSession,
                            !.result = NoError]
    /\ UNCHANGED <<tasks, subtasks, nextSubtaskID, pc, call, planLen, rest>>

\* GetCPUCountOfManagedNode
GetCPUCountOfManagedNode ==
    /\ ret' = [NoRet EXCEPT !.op = "GetCPUCountOfManagedNode",
                            !.val = <<getCPUCountOfManagedNode.cnt>>,
                            !.result = getCPUCountOfManagedNode.err]
    /\ UNCHANGED <<tasks, subtasks, nextSubtaskID, pc, call, planLen, rest>>

\* the lists of dead nodes a scheduler may pass
DeadNodeLists ==
    {<<>>} \cup {<<HostOrder[i]>> : i \in 1..Len(HostOrder)}
           \cup {<<HostOrder[i], HostOrder[j]>> : i, j \in 1..Len(HostOrder)}

----
\* The slots in use.

\* the subtask tables the slots are read from: three subtasks of tasks 1 and
\* 2 on the nodes, each with a concurrency of its own
SlotTables ==
    {{[id |-> i, step |-> 1, task_key |-> tk[i], exec_id |-> ex[i],
       meta |-> SubtaskMeta(i), state |-> SubtaskStatePending,
       concurrency |-> cc[i], ordinal |-> i, error |-> <<>>,
       state_update_time |-> <<>>] : i \in 1..3} :
        tk \in {<<1, 1, 1>>, <<1, 1, 2>>},
        ex \in {<<"n1", "n1", "n1">>, <<"n1", "n2", "n1">>},
        cc \in [1..3 -> 1..MaxCPU]}

\* where state in (pending, running)
HoldsSlots(r) == r.state \in {TaskStatePending, TaskStateRunning}

\* sum(concurrency) of a set of grouped rows
RECURSIVE SumConcurrency(_)
SumConcurrency(G) ==
    IF G = {} THEN 0
    ELSE LET g == CHOOSE x \in G : TRUE
         IN g.concurrency + SumConcurrency(G \ {g})

\* the concurrencies of a group, each row counted
GroupSum(R) ==
    SumConcurrency({[id |-> r.id, concurrency |-> r.concurrency] : r \in R})

\* max(concurrency) of a group of rows
GroupMax(R) ==
    CHOOSE c \in {r.concurrency : r \in R} : \A r \in R : r.concurrency <= c

\* select exec_id, task_key, max(concurrency) concurrency ... where state in
\* (pending, running) group by exec_id, task_key
SlotsPerNodeAndTask(tbl) ==
    LET rows == {r \in tbl : HoldsSlots(r)}
    IN {[exec_id |-> k[1], task_key |-> k[2],
         concurrency |-> GroupMax({r \in rows : r.exec_id = k[1] /\ r.task_key = k[2]})] :
           k \in {<<r.exec_id, r.task_key>> : r \in rows}}

\* select exec_id, sum(concurrency) from (...) a group by exec_id: the map
\* GetUsedSlotsOnNodes builds from the rows
UsedSlots(tbl) ==
    LET a == SlotsPerNodeAndTask(tbl)
    IN [e \in {g.exec_id : g \in a} |->
           SumConcurrency({g \in a : g.exec_id = e})]

\* GetUsedSlotsOnNodes
GetUsedSlotsOnNodes ==
    /\ ret' = [NoRet EXCEPT !.op = "GetUsedSlotsOnNodes",
                            !.val = <<UsedSlots(subtasks)>>,
                            !.result = NoError]
    /\ UNCHANGED <<tasks, subtasks, nextSubtaskID, pc, call, planLen, rest>>

----
\* The tasks to schedule.

\* the states of a task
TaskStates ==
    {TaskStatePending, TaskStateRunning, TaskStateReverting, TaskStateCancelling,
     TaskStatePausing, TaskStateResuming, TaskStatePaused, TaskStateSucceed,
     TaskStateFailed, TaskStateReverted}

\* where state in (pending, running, reverting, cancelling, pausing, resuming)
UnfinishedStates ==
    {TaskStatePending, TaskStateRunning, TaskStateReverting, TaskStateCancelling,
     TaskStatePausing, TaskStateResuming}

\* limit MaxConcurrentTask*2
TopLimit == MaxConcurrentTask * 2

row2TaskBasic(r) ==
    [ID |-> r.id, Key |-> r.task_key, Type |-> r.type, State |-> r.state,
     Step |-> r.step, Priority |-> r.priority, Concurrency |-> r.concurrency,
     CreateTime |-> r.create_time]

\* an order that forgets the create time
TaskBeforeNoTime(a, b) ==
    \/ a.priority < b.priority
    \/ a.priority = b.priority /\ a.id <= b.id

\* order by priority asc, create_time asc, id asc
TaskBefore(a, b) ==
    \/ a.priority < b.priority
    \/ a.priority = b.priority /\ a.create_time < b.create_time
    \/ a.priority = b.priority /\ a.create_time = b.create_time /\ a.id <= b.id

\* the rows in the order of the statement
RECURSIVE SortTasks(_)
SortTasks(rows) ==
    IF rows = {} THEN <<>>
    ELSE LET r == CHOOSE x \in rows : \A y \in rows : TaskBefore(x, y)
         IN <<r>> \o SortTasks(rows \ {r})

\* the statement of GetTopUnfinishedTasks and the conversion of its rows
TopUnfinishedTasks(tbl) ==
    LET rs == SortTasks({r \in tbl : r.state \in UnfinishedStates})
    IN [i \in 1..Min(Len(rs), TopLimit) |-> row2TaskBasic(rs[i])]

\* GetTopUnfinishedTasks
GetTopUnfinishedTasks ==
    /\ ret' = [NoRet EXCEPT !.op = "GetTopUnfinishedTasks",
                            !.val = TopUnfinishedTasks(tasks),
                            !.result = NoError]
    /\ UNCHANGED <<tasks, subtasks, nextSubtaskID, pc, call, planLen, rest>>

\* the task tables the scheduler reads: one row more than the limit, the
\* first in any state, the priorities equal, rising or falling with the id and
\* the create times equal or falling with the id
TopTables ==
    LET n == TopLimit + 1
        prio(pat, i) == CASE pat = "same" -> NormalPriority
                          [] pat = "rising" -> NormalPriority + i
                          [] pat = "falling" -> NormalPriority + n - i
        time(pat, i) == IF pat = "same" THEN 0 ELSE n - i
    IN {{[InsertedTaskRow(i, "k" \o ToString(i), "tp", 1, "m0") EXCEPT
              !.state = st[i], !.priority = prio(pp, i),
              !.create_time = time(tp, i)] : i \in 1..n} :
          st \in {f \in [1..n -> TaskStates] :
                    \A i \in 2..n : f[i] \in {TaskStateRunning, TaskStatePaused,
                                                 TaskStateReverted}},
          pp \in {"same", "rising", "falling"},
          tp \in {"same", "falling"}}

----
\* The combined update of a task and insert of its subtasks.

\* the task objects UpdateTaskAndAddSubTasks is called with
LegacyTasks ==
    [ID : {1}, State : {TaskStatePending, TaskStateRunning, TaskStateReverting},
     Step : {StepInit, 1}, Concurrency : {1}, Meta : {"m0"},
     Error : {NilErr, [kind |-> "plain", wrapped |-> FALSE, code |-> 0, msg |-> "e1"]}]

\* the states the caller last saw the task in
PrevStates == {TaskStatePending, TaskStateRunning}

\* the statements of the transaction that may fail
LegacyFaults == {"none", "update", "insert"}

\* a predicate that forgets the state
HasIDOnly(r, task, prevState) == r.id = task.ID

\* where id = task.ID and state = prevState
HasPrevState(r, task, prevState) == r.id = task.ID /\ r.state = prevState

\* set state, step, concurrency, meta, error
LegacyUpdated(r, task) ==
    [r EXCEPT !.state = task.State, !.step = task.Step,
              !.concurrency = task.Concurrency, !.meta = task.Meta,
              !.error = serializeErr(task.Error)]

\* StmtCtx.AffectedRows() of the update: no row when none matches, the
\* matching row when it changes, and either when it is set to what it holds
LegacyAffected(tbl, task, prevState) ==
    LET M == {r \in tbl : HasPrevState(r, task, prevState)}
    IN IF M = {} THEN {0}
       ELSE IF \A r \in M : LegacyUpdated(r, task) = r THEN {0, 1}
       ELSE {1}

\* an insert that does not look at the task's state
LegacySubtaskStatePending(task) == SubtaskStatePending

\* the state of the subtasks inserted for the task
LegacySubtaskState(task) ==
    IF task.State = TaskStateReverting THEN SubtaskStateRevertPending
    ELSE SubtaskStatePending

\* the rows of the insert statement of UpdateTaskAndAddSubTasks
LegacyInserted(task, list, firstID) ==
    {[id |-> firstID + i - 1,
      step |-> list[i].Step,
      task_key |-> task.ID,
      exec_id |-> list[i].ExecID,
      meta |-> list[i].Meta,
      state |-> LegacySubtaskState(task),
      concurrency |-> list[i].Concurrency,
      ordinal |-> <<>>,
      error |-> <<>>,
      state_update_time |-> <<>>] : i \in 1..Len(list)}

\* what the transaction function returns when the insert statement returned
\* err: nil
InsertErrDropped(err) == NoError

\* a check that reads the row again in every build
RecheckAlways(inTest) == TRUE

\* intest.InTest: only a test build reads the row again
Rechecks(inTest) == inTest

\* UpdateTaskAndAddSubTasks: one transaction with the update of the task row,
\* the check of its affected rows and the insert of the subtasks
UpdateTaskAndAddSubTasks(task, list, prevState, inTest, fault) ==
    \E affected \in LegacyAffected(tasks, task, prevState) :
       LET updated == {IF HasPrevState(r, task, prevState)
                          THEN LegacyUpdated(r, task) ELSE r : r \in tasks}
           found == {r \in updated : HasPrevState(r, task, prevState)}
           early == IF fault = "update" THEN StoreError
                    ELSE IF affected = 0 /\ ~Rechecks(inTest) THEN ErrInvalidTransform
                    ELSE IF affected = 0 /\ found = {} THEN ErrInvalidTransform
                    ELSE NoError
           retryable == early # ErrInvalidTransform
           inserts == early = NoError /\ Len(list) > 0
           insertErr == IF inserts /\ fault = "insert" THEN StoreError ELSE NoError
           err == IF early # NoError THEN early ELSE InsertErrDropped(insertErr)
           commit == WithNewTxnEnd(err) = "commit"
           rows == IF inserts /\ insertErr = NoError
                      THEN LegacyInserted(task, list, nextSubtaskID) ELSE {}
       IN /\ Cardinality(subtasks) + Len(list) <= MaxSubtasks
          /\ tasks' = IF commit THEN updated ELSE tasks
          /\ subtasks' = IF commit THEN subtasks \cup rows ELSE subtasks
          /\ nextSubtaskID' = IF commit THEN nextSubtaskID + Cardinality(rows)
                              ELSE nextSubtaskID
          /\ ret' = [NoRet EXCEPT !.op = "UpdateTaskAndAddSubTasks",
                                  !.task = task.ID, !.err = task.Error,
                                  !.arg = <<inTest, affected, fault, Len(list), prevState,
                                            task.Step, task.State>>,
                                  !.val = <<retryable>>,
                                  !.result = err]
          /\ UNCHANGED <<pc, call, planLen, rest>>

----
\* The bulk and single-row updates of the executors.

\* UpdateSubtaskStateAndError: one update by id and exec_id
UpdateSubtaskStateAndError(execID, id, state, subTaskErr) ==
    /\ subtasks' = {IF OwnedBy(r, id, execID)
                       THEN [r EXCEPT !.state = state,
                                      !.error = serializeErr(subTaskErr),
                                      !.state_update_time = <<now>>]
                       ELSE r : r \in subtasks}
    /\ ret' = [NoRet EXCEPT !.op = "UpdateSubtaskStateAndError", !.id = id,
                            !.exec = execID, !.arg = <<state>>,
                            !.err = subTaskErr, !.result = NoError]
    /\ UNCHANGED <<tasks, nextSubtaskID, pc, call, planLen, rest>>

\* CancelSubtask: one update with limit 1
CancelSubtask(execID, taskID) ==
    /\ \E T \in LimitOne({r \in subtasks : ActiveOn(r, execID, taskID)}) :
          subtasks' = {IF r \in T
                          THEN [r EXCEPT !.state = SubtaskStateCanceled,
                                         !.state_update_time = <<now>>]
                          ELSE r : r \in subtasks}
    /\ ret' = [NoRet EXCEPT !.op = "CancelSubtask", !.exec = execID,
                            !.task = taskID, !.result = NoError]
    /\ UNCHANGED <<tasks, nextSubtaskID, pc, call, planLen, rest>>

\* PauseSubtasks: one update of the running and pending subtasks of the task
\* on the node
PauseSubtasks(execID, taskID) ==
    /\ subtasks' = {IF ActiveOn(r, execID, taskID)
                       THEN [r EXCEPT !.state = SubtaskStatePaused]
                       ELSE r : r \in subtasks}
    /\ ret' = [NoRet EXCEPT !.op = "PauseSubtasks", !.exec = execID,
                            !.task = taskID, !.result = NoError]
    /\ UNCHANGED <<tasks, nextSubtaskID, pc, call, planLen, rest>>

\* a resume of the paused subtasks of every task
PausedAnywhere(r, taskID) == r.state = SubtaskStatePaused

\* where task_key = taskID and state = "paused"
PausedOf(r, taskID) == r.task_key = taskID /\ r.state = SubtaskStatePaused

\* ResumeSubtasks: one update of the paused subtasks of the task
ResumeSubtasks(taskID) ==
    /\ subtasks' = {IF PausedOf(r, taskID)
                       THEN [r EXCEPT !.state = SubtaskStatePending,
                                      !.error = <<>>]
                       ELSE r : r \in subtasks}
    /\ ret' = [NoRet EXCEPT !.op = "ResumeSubtasks", !.task = taskID,
                            !.result = NoError]
    /\ UNCHANGED <<tasks, nextSubtaskID, pc, call, planLen, rest>>

\* the subtask tables the executors work on: two subtasks of task 1 and one
\* of task 2
OpsTables ==
    {T \in SlotTables :
        /\ \A r \in T : r.concurrency = 1
        /\ \E r \in T : r.task_key = 2}

\* the error an executor reports
SubtaskError == [kind |-> "plain", wrapped |-> FALSE, code |-> 0, msg |-> "e1"]

----
\* The errors kept in the rows.

\* error bytes that are not the JSON of an error: some text, and no bytes
MalformedBytes == {[raw |-> "oops"], [raw |-> ""]}

\* the error columns the rows hold before the calls: NULL, or bytes another
\* writer left
StoredErrors == {<<>>} \cup {<<b>> : b \in MalformedBytes}

\* stdErr.UnmarshalJSON(errBytes) returns an error
UnmarshalFails(b) == "raw" \in DOMAIN b

\* stdErr after UnmarshalJSON(errBytes) returned nil
UnmarshalJSON(b) ==
    [kind |-> "normalized", wrapped |-> FALSE, code |-> b.code, msg |-> b.message]

\* errors.New(string(errBytes))
NewError(b) == [kind |-> "plain", wrapped |-> FALSE, code |-> 0, msg |-> b.raw]

\* len(errBytes) == 0
NoBytes(b) == UnmarshalFails(b) /\ b.raw = ""

\* row2Task's task.Error: nil for NULL, the text of bytes that do not parse,
\* else the parsed error
TaskError(r) ==
    IF r.error = <<>> THEN NilErr
    ELSE IF UnmarshalFails(r.error[1]) THEN NewError(r.error[1])
    ELSE UnmarshalJSON(r.error[1])

\* GetTaskByID, with the Error of the task it returns
GetTaskByIDError(taskID) ==
    /\ ret' = IF \E r \in tasks : r.id = taskID
                 THEN [NoRet EXCEPT !.op = "GetTaskByIDError", !.task = taskID,
                                    !.err = TaskError(CHOOSE r \in tasks : r.id = taskID),
                                    !.result = NoError]
                 ELSE [NoRet EXCEPT !.op = "GetTaskByIDError", !.task = taskID,
                                    !.result = ErrTaskNotFound]
    /\ UNCHANGED <<tasks, subtasks, nextSubtaskID, pc, call, planLen, rest>>

\* where task_key = taskID and state in (failed, canceled)
FailedOrCanceled(r, taskID) ==
    /\ r.task_key = taskID
    /\ r.state \in {SubtaskStateFailed, SubtaskStateCanceled}

\* the row's bytes do not parse: the loop returns UnmarshalJSON's error
CollectFails(r) ==
    /\ r.error # <<>>
    /\ ~NoBytes(r.error[1])
    /\ UnmarshalFails(r.error[1])

\* the error appended for a row: nil for NULL and for no bytes
CollectedError(r) ==
    IF r.error = <<>> THEN NilErr
    ELSE IF NoBytes(r.error[1]) THEN NilErr
    ELSE UnmarshalJSON(r.error[1])

\* the error UnmarshalJSON returns
ErrUnmarshal == "invalid character"

\* CollectSubTaskError: the errors of the failed and canceled subtasks of the
\* task, or the error of the first bytes that do not parse
CollectSubTaskError(taskID) ==
    LET rs == SortByID({r \in subtasks : FailedOrCanceled(r, taskID)})
        bad == \E i \in 1..Len(rs) : CollectFails(rs[i])
    IN /\ ret' = [NoRet EXCEPT !.op = "CollectSubTaskError", !.task = taskID,
                     !.val = IF bad THEN <<>>
                             ELSE [i \in 1..Len(rs) |-> CollectedError(rs[i])],
                     !.result = IF bad THEN ErrUnmarshal ELSE NoError]
       /\ UNCHANGED <<tasks, subtasks, nextSubtaskID, pc, call, planLen, rest>>

----
\* Task creation.

\* the keys, concurrencies and metas tasks are created with
TaskKeys == {"k1", "k2"}
Concurrencies == 1..(MaxCPU + 1)
TaskMetas == {"m0", "m1"}

\* a gate that also refuses a concurrency equal to the CPU count
AtOrOverCapacity(concurrency, cpuCount) == concurrency >= cpuCount

\* concurrency > cpuCount
ExceedsCapacity(concurrency, cpuCount) == concurrency > cpuCount

\* an id the table already holds
SomeExistingID(next) == IF tasks = {} THEN next ELSE CHOOSE i \in {r.id : r \in tasks} : TRUE

\* select @@last_insert_id: the id the store gave the inserted row
LastInsertID(next) == next

\* CreateTask, CreateTaskWithSession: the capacity of the managed nodes is
\* read and the concurrency compared with it, then the row is inserted and
\* its id read back
CreateTask(key, tp, concurrency, meta) ==
    LET cpu == getCPUCountOfManagedNode
        err == IF cpu.err # NoError THEN cpu.err
               ELSE IF ExceedsCapacity(concurrency, cpu.cnt) THEN ErrConcurrencyExceeds
               ELSE NoError
    IN /\ nextTaskID <= 1 + MaxNewTasks
       /\ tasks' = IF err = NoError
                   THEN tasks \cup {InsertedTaskRow(LastInsertID(nextTaskID), key, tp, concurrency, meta)}
                   ELSE tasks
       /\ nextTaskID' = IF err = NoError THEN nextTaskID + 1 ELSE nextTaskID
       /\ ret' = [NoRet EXCEPT !.op = "CreateTask",
                               !.id = IF err = NoError THEN LastInsertID(nextTaskID) ELSE 0,
                               !.arg = <<key, tp, concurrency, meta>>,
                               !.result = err]
       /\ UNCHANGED <<subtasks, nextSubtaskID, pc, call, planLen,
                      taskHistory, subtaskHistory, nodeMeta, now, returned>>

----
\* The history tables.

\* GetTaskByID on the task table live: the task of the row, or ErrTaskNotFound
GetTaskByIDResult(live, taskID) ==
    LET rs == {r \in live : r.id = taskID}
    IN IF rs = {} THEN {[task |-> NoTask, err |-> ErrTaskNotFound]}
       ELSE {[task |-> row2Task(r), err |-> NoError] : r \in rs}

\* GetTaskByIDWithHistory on the tables live and hist: the task of the first
\* row of the union of the live and the history rows (any of them, the union
\* has no order), or ErrTaskNotFound
GetTaskByIDWithHistoryResult(live, hist, taskID) ==
    LET rs == {r \in live : r.id = taskID} \cup {r \in hist : r.id = taskID}
    IN IF rs = {} THEN {[task |-> NoTask, err |-> ErrTaskNotFound]}
       ELSE {[task |-> row2Task(r), err |-> NoError] : r \in rs}

\* the ids of a list of task objects
TaskIDsOf(list) == {list[i].ID : i \in 1..Len(list)}

\* update mysql.tidb_global_task set meta = t.Meta where id = t.ID, for list[i..]
RECURSIVE UpdateMetaFrom(_, _, _)
UpdateMetaFrom(tbl, list, i) ==
    IF i > Len(list) THEN tbl
    ELSE UpdateMetaFrom(
             {IF r.id = list[i].ID THEN [r EXCEPT !.meta = list[i].Meta] ELSE r :
                 r \in tbl},
             list, i + 1)

\* the error TransferTasks2History returns: the error of the delete is
\* overwritten by the outcome of the subtask transfers that follow it
TransferErr(updateErr, insertErr, deleteErr, subtaskErr) ==
    IF updateErr # NoError THEN updateErr
    ELSE IF insertErr # NoError THEN insertErr
    ELSE subtaskErr

\* the statement of TransferTasks2History that fails, if one does; a statement
\* that fails changes nothing and leaves the transaction open
TransferFaults == {"none", "update", "insert", "delete", "subtasks"}

\* the terminal states of a task
TerminalTaskStates == {TaskStateSucceed, TaskStateFailed, TaskStateReverted}

\* a transfer that takes the finished tasks only
IDInAndTerminal(r, ids) == r.id \in ids /\ r.state \in TerminalTaskStates

\* where id in (taskIDStrs)
IDIn(r, ids) == r.id \in ids

\* TransferTasks2History: nothing for an empty list, else one transaction:
\* the metas are refreshed, the task rows copied to the history and deleted,
\* then the subtasks of each task copied to the history and deleted
TransferTasks2History(list, fault) ==
    LET ids == TaskIDsOf(list)
        errOf(stmt) == IF fault = stmt THEN StoreError ELSE NoError
        err == TransferErr(errOf("update"), errOf("insert"), errOf("delete"),
                           errOf("subtasks"))
        updated == UpdateMetaFrom(tasks, list, 1)
        moved == {r \in updated : IDIn(r, ids)}
        movedSub == {r \in subtasks : r.task_key \in ids}
        commit == Len(list) > 0 /\ WithNewTxnEnd(err) = "commit"
    IN /\ Len(list) = 0 => fault = "none"
       /\ tasks' = IF ~commit THEN tasks
                   ELSE IF fault = "delete" THEN updated
                   ELSE updated \ moved
       /\ taskHistory' = IF commit THEN taskHistory \cup moved ELSE taskHistory
       /\ subtasks' = IF commit THEN subtasks \ movedSub ELSE subtasks
       /\ subtaskHistory' = IF commit THEN subtaskHistory \cup movedSub
                            ELSE subtaskHistory
       /\ ret' = [NoRet EXCEPT !.op = "TransferTasks2History", !.arg = list,
                               !.val = <<fault>>,
                               !.result = IF Len(list) = 0 THEN NoError ELSE err]
       /\ UNCHANGED <<nextSubtaskID, pc, call, planLen, nextTaskID, nodeMeta, now, returned>>

\* the retention of the subtask history, in seconds
subtaskHistoryKeepSeconds == defaultSubtaskKeepDays * 24 * 60 * 60

\* a retention test that takes the boundary too
AtOrOlderThan(t, limit) == t <= limit

\* state_update_time < UNIX_TIMESTAMP() - subtaskHistoryKeepSeconds
OlderThan(t, limit) == t < limit

\* GCSubtasks: one delete on the subtask history; a NULL update time
\* compares as unknown and the row stays
GCSubtasks ==
    /\ subtaskHistory' =
          {r \in subtaskHistory :
              ~(/\ r.state_update_time # <<>>
                /\ OlderThan(r.state_update_time[1], now - subtaskHistoryKeepSeconds))}
    /\ ret' = [NoRet EXCEPT !.op = "GCSubtasks", !.result = NoError]
    /\ UNCHANGED <<tasks, subtasks, nextSubtaskID, pc, call, planLen,
                   nextTaskID, taskHistory, nodeMeta, now, returned>>

\* how many times the clock was advanced, by a second or by the retention
Ticks == (now \div subtaskHistoryKeepSeconds) + (now % subtaskHistoryKeepSeconds)

\* time passes
Tick(d) ==
    /\ Ticks < MaxTicks
    /\ now' = now + d
    /\ ret' = NoRet
    /\ UNCHANGED <<tasks, subtasks, nextSubtaskID, pc, call, planLen,
                   nextTaskID, taskHistory, subtaskHistory, nodeMeta, returned>>

\* the task objects a scheduler hands to TransferTasks2History: the task it
\* read, its meta as read or redacted, and a task that never existed
TransferredTasks ==
    UNION {{[ID |-> r.id, State |-> r.state, Step |-> r.step, Meta |-> m] :
               m \in {r.meta, "redacted"}} : r \in tasks}
    \cup {[ID |-> 2, State |-> TaskStateSucceed, Step |-> StepInit, Meta |-> "m2"]}

----
\* Specifications.

InitTables ==
    /\ now = 0
    /\ tasks = {NewTaskRow(1, "m0")}
    /\ subtasks = {}
    /\ nextSubtaskID = 1
    /\ pc = [s \in Schedulers |-> "idle"]
    /\ call = [s \in Schedulers |-> EmptyCall]
    /\ ret = NoRet
    /\ nextTaskID = 2
    /\ taskHistory = {}
    /\ subtaskHistory = {}
    /\ nodeMeta = {[host |-> "n1", role |-> "", cpu_count |-> 1]}
    /\ returned = {}

\* Spec: two schedulers drive task 1 through its steps with SwitchTaskStep;
\* each reads the task, then switches it to the step after the one it read.
Init ==
    /\ InitTables
    /\ planLen \in [1..MaxStep -> 0..MaxSubtasks]

Next ==
    \E s \in Schedulers :
        \/ GetTaskByID(s, 1)
        \/ /\ call[s].task.Step < MaxStep
           /\ SwitchTaskStep_update(s, TaskStateRunning, call[s].task.Step + 1,
                  PlannedList(call[s].task.Step + 1))
        \/ SwitchTaskStep_insert(s)
        \/ SwitchTaskStep_insertErr(s)
        \/ Return(s)

Spec == Init /\ [][Next]_vars

\* SpecBatch: the same two schedulers, switching with SwitchTaskStepInBatch.
NextBatch ==
    \E s \in Schedulers :
        \/ GetTaskByID(s, 1)
        \/ /\ call[s].task.Step < MaxStep
           /\ SwitchTaskStepInBatch_count(s, TaskStateRunning, call[s].task.Step + 1,
                  PlannedList(call[s].task.Step + 1))
        \/ SwitchTaskStepInBatch_insert(s)
        \/ SwitchTaskStepInBatch_insertErr(s)
        \/ SwitchTaskStepInBatch_update(s)
        \/ Return(s)

SpecBatch == Init /\ [][NextBatch]_vars

\* SpecSeq: one caller makes SwitchTaskStep calls, one after the other, with
\* any task object, any target and a list of any length, and may repeat a call.
InitSeq ==
    /\ InitTables
    /\ planLen = [p \in 1..MaxStep |-> 0]

NextSeq ==
    \/ \E task \in TaskObjects : HoldTask("s1", task)
    \/ \E nextState \in CallerTaskStates, nextStep \in CallerSteps, n \in 0..MaxSubtasks :
          SwitchTaskStep_update("s1", nextState, nextStep,
              NewSubtasks(call["s1"].task.ID, nextStep, n))
    \/ SwitchTaskStep_insert("s1")
    \/ SwitchTaskStep_insertErr("s1")
    \/ Return("s1")
    \/ Retry("s1")

SpecSeq == InitSeq /\ [][NextSeq]_vars

\* SpecSeqBatch: the same caller, calling SwitchTaskStepInBatch.
NextSeqBatch ==
    \/ \E task \in TaskObjects : HoldTask("s1", task)
    \/ \E nextState \in CallerTaskStates, nextStep \in CallerSteps, n \in 0..MaxSubtasks :
          SwitchTaskStepInBatch_count("s1", nextState, nextStep,
              NewSubtasks(call["s1"].task.ID, nextStep, n))
    \/ SwitchTaskStepInBatch_insert("s1")
    \/ SwitchTaskStepInBatch_insertErr("s1")
    \/ SwitchTaskStepInBatch_update("s1")
    \/ Return("s1")
    \/ Retry("s1")

SpecSeqBatch == InitSeq /\ [][NextSeqBatch]_vars

\* SpecExec: a scheduler switches task 1 to step 1 once; the executors start
\* and fail subtasks and the balancer moves them between nodes.
InitExec ==
    /\ InitTables
    /\ planLen \in {[p \in 1..MaxStep |-> IF p = 1 THEN n ELSE 0] : n \in 0..MaxSubtasks}

NextExec ==
    \/ GetTaskByID("s1", 1)
    \/ /\ call["s1"].task.Step = StepInit
       /\ SwitchTaskStep_update("s1", TaskStateRunning, 1, PlannedList(1))
    \/ SwitchTaskStep_insert("s1")
    \/ \E id \in 1..(MaxSubtasks + 1), e \in Nodes : StartSubtask(id, e)
    \/ \E e \in Nodes, id \in TaskIDs, err \in CallerErrors : FailSubtask(e, id, err)
    \/ \E o1 \in BalancedSubtasks :
          \/ UpdateSubtasksExecIDs(<<o1>>)
          \/ \E o2 \in BalancedSubtasks :
                o1.ID < o2.ID /\ UpdateSubtasksExecIDs(<<o1, o2>>)

SpecExec == InitExec /\ [][NextExec]_vars

\* SpecBalance: a scheduler switches task 1 to step 1 once; executors start
\* and finish subtasks, the balancer moves them between nodes and the
\* scheduler reverts the running subtasks of nodes it takes for dead.
NextBalance ==
    \/ GetTaskByID("s1", 1)
    \/ /\ call["s1"].task.Step = StepInit
       /\ SwitchTaskStep_update("s1", TaskStateRunning, 1, PlannedList(1))
    \/ SwitchTaskStep_insert("s1")
    \/ \E id \in 1..MaxSubtasks, e \in Nodes : StartSubtask(id, e)
    \/ \E id \in 1..MaxSubtasks, e \in Nodes : FinishSubtask(e, id, <<0>>)
    \/ \E o \in BalancedSubtasks : UpdateSubtasksExecIDs(<<o>>)
    \/ RunningSubtasksBack2Pending(<<>>)
    \/ \E o1 \in RevertedSubtasks :
          \/ RunningSubtasksBack2Pending(<<o1>>)
          \/ \E o2 \in RevertedSubtasks :
                o1.ID < o2.ID /\ RunningSubtasksBack2Pending(<<o1, o2>>)

SpecBalance == InitExec /\ [][NextBalance]_vars

\* SpecHistory: a scheduler switches task 1 to step 1 once and executors start
\* their subtasks; tasks and their subtasks are moved to the history, and a
\* statement of the move may fail.
NextHistory ==
    \/ GetTaskByID("s1", 1)
    \/ /\ call["s1"].task.Step = StepInit
       /\ SwitchTaskStep_update("s1", TaskStateRunning, 1, PlannedList(1))
    \/ SwitchTaskStep_insert("s1")
    \/ \E r \in subtasks : StartSubtask(r.id, r.exec_id)
    \/ TransferTasks2History(<<>>, "none")
    \/ \E t1 \in TransferredTasks, fault \in TransferFaults :
          \/ TransferTasks2History(<<t1>>, fault)
          \/ \E t2 \in TransferredTasks :
                t1.ID < t2.ID /\ TransferTasks2History(<<t1, t2>>, fault)

SpecHistory == InitExec /\ [][NextHistory]_vars

\* SpecGC: a scheduler switches task 1 to step 1 once and executors start
\* their subtasks; time passes, the task and its subtasks are moved to the
\* history and the subtask history is collected.
NextGC ==
    \/ GetTaskByID("s1", 1)
    \/ /\ call["s1"].task.Step = StepInit
       /\ SwitchTaskStep_update("s1", TaskStateRunning, 1, PlannedList(1))
    \/ SwitchTaskStep_insert("s1")
    \/ \E r \in subtasks : StartSubtask(r.id, r.exec_id)
    \/ \E d \in {1, subtaskHistoryKeepSeconds} : Tick(d)
    \/ \E r \in tasks : TransferTasks2History(<<row2Task(r)>>, "none")
    \/ GCSubtasks

SpecGC == InitExec /\ [][NextGC]_vars

\* SpecNodes: nodes register and recover with a role and a CPU count, dead
\* nodes are deleted, and the scheduler reads the managed nodes and their
\* capacity.
NextNodes ==
    \/ \E e \in Nodes, role \in Roles, c \in CPUCounts : InitMeta(e, role, c)
    \/ \E e \in Nodes, role \in Roles, c \in CPUCounts : RecoverMeta(e, role, c)
    \/ \E nodes \in DeadNodeLists : DeleteDeadNodes(nodes)
    \/ GetManagedNodes
    \/ GetCPUCountOfManagedNode

SpecNodes == InitSeq /\ [][NextNodes]_vars

\* SpecCreate: nodes register with a role and a CPU count, dead nodes are
\* deleted, and callers create tasks.
NextCreate ==
    \/ \E e \in Nodes, role \in {"", "background"}, c \in CPUCounts : InitMeta(e, role, c)
    \/ \E e \in Nodes : DeleteDeadNodes(<<e>>)
    \/ \E key \in TaskKeys, c \in Concurrencies, meta \in TaskMetas :
          CreateTask(key, "tp", c, meta)

SpecCreate == InitSeq /\ [][NextCreate]_vars

\* SpecRace: a scheduler switches task 1 to step 1 once; for each subtask the
\* executor of its node starts it and the balancer moves it to the other
\* node, each once, in any order, as time passes.
NextRace ==
    \/ GetTaskByID("s1", 1)
    \/ /\ call["s1"].task.Step = StepInit
       /\ SwitchTaskStep_update("s1", TaskStateRunning, 1, PlannedList(1))
    \/ SwitchTaskStep_insert("s1")
    \/ \E id \in 1..MaxSubtasks : Race_StartSubtask(id)
    \/ \E id \in 1..MaxSubtasks : Race_UpdateSubtasksExecIDs(id)
    \/ Tick(1)

SpecRace == InitExec /\ [][NextRace]_vars

\* SpecLegacy: a scheduler updates task 1 and adds subtasks with
\* UpdateTaskAndAddSubTasks, in a test build or not, and a statement may fail;
\* the task carries no error.
NextLegacy ==
    \E task \in {t \in LegacyTasks : t.Error = NilErr}, n \in 0..MaxSubtasks,
       prevState \in PrevStates, inTest \in BOOLEAN, fault \in LegacyFaults :
          UpdateTaskAndAddSubTasks(task, NewSubtasks(task.ID, task.Step, n),
                                   prevState, inTest, fault)

SpecLegacy == InitSeq /\ [][NextLegacy]_vars

\* SpecTop: the scheduler reads the tasks to schedule from a task table.
InitTop ==
    /\ now = TopLimit + 1
    /\ tasks \in TopTables
    /\ subtasks = {}
    /\ nextSubtaskID = 1
    /\ pc = [s \in Schedulers |-> "idle"]
    /\ call = [s \in Schedulers |-> EmptyCall]
    /\ planLen = [p \in 1..MaxStep |-> 0]
    /\ ret = NoRet
    /\ nextTaskID = TopLimit + 2
    /\ taskHistory = {}
    /\ subtaskHistory = {}
    /\ nodeMeta = {[host |-> "n1", role |-> "", cpu_count |-> 1]}
    /\ returned = {}

NextTop == GetTopUnfinishedTasks

SpecTop == InitTop /\ [][NextTop]_vars

\* SpecSlots: executors start and finish the subtasks of two tasks and the
\* scheduler reads the slots in use.
InitSlots ==
    /\ now = 0
    /\ tasks = {NewTaskRow(1, "m0"), InsertedTaskRow(2, "k2", "tp", 1, "m0")}
    /\ subtasks \in SlotTables
    /\ nextSubtaskID = 4
    /\ pc = [s \in Schedulers |-> "idle"]
    /\ call = [s \in Schedulers |-> EmptyCall]
    /\ planLen = [p \in 1..MaxStep |-> 0]
    /\ ret = NoRet
    /\ nextTaskID = 3
    /\ taskHistory = {}
    /\ subtaskHistory = {}
    /\ nodeMeta = {[host |-> "n1", role |-> "", cpu_count |-> 1]}
    /\ returned = {}

NextSlots ==
    \/ \E r \in subtasks : StartSubtask(r.id, r.exec_id)
    \/ \E r \in subtasks : FinishSubtask(r.exec_id, r.id, r.meta)
    \/ GetUsedSlotsOnNodes

SpecSlots == InitSlots /\ [][NextSlots]_vars

\* the subtasks of two tasks, each of concurrency 1
InitOps ==
    /\ InitSlots
    /\ subtasks \in OpsTables

\* SpecPause: the executors start and fail the subtasks of two tasks and
\* pause them, and the scheduler resumes them.
NextPause ==
    \/ \E r \in subtasks : StartSubtask(r.id, r.exec_id)
    \/ \E r \in subtasks :
          UpdateSubtaskStateAndError(r.exec_id, r.id, SubtaskStateFailed, SubtaskError)
    \/ \E e \in Nodes, taskID \in TaskIDs : PauseSubtasks(e, taskID)
    \/ \E taskID \in TaskIDs : ResumeSubtasks(taskID)
    \/ \E e \in Nodes, taskID \in TaskIDs : FailSubtask(e, taskID, SubtaskError)

SpecPause == InitOps /\ [][NextPause]_vars

\* SpecCancel: the executors start, finish and cancel the subtasks of two
\* tasks.
NextCancel ==
    \/ \E r \in subtasks : StartSubtask(r.id, r.exec_id)
    \/ \E r \in subtasks : FinishSubtask(r.exec_id, r.id, r.meta)
    \/ \E e \in Nodes, taskID \in TaskIDs : CancelSubtask(e, taskID)

SpecCancel == InitOps /\ [][NextCancel]_vars

\* SpecFinish: executors, the owner or not, finish the subtasks of two tasks
\* and set their state and error.
NextFinish ==
    \/ \E e \in Nodes, id \in 1..4 : FinishSubtask(e, id, <<9>>)
    \/ \E e \in Nodes, id \in 1..4, err \in {NilErr, SubtaskError} :
          UpdateSubtaskStateAndError(e, id, SubtaskStateFailed, err)

SpecFinish == InitOps /\ [][NextFinish]_vars

\* SpecErrors: task 1 and its two subtasks hold no error or bytes another
\* writer left; the executor and the scheduler write errors, and the task
\* and the errors of its subtasks are read.
ErrorTables ==
    {{[id |-> 1, step |-> 1, task_key |-> 1, exec_id |-> "n1",
       meta |-> SubtaskMeta(1), state |-> SubtaskStatePending,
       concurrency |-> 1, ordinal |-> 1, error |-> <<>>,
       state_update_time |-> <<>>],
      [id |-> 2, step |-> 1, task_key |-> 1, exec_id |-> "n1",
       meta |-> SubtaskMeta(2), state |-> st,
       concurrency |-> 1, ordinal |-> 2, error |-> e,
       state_update_time |-> <<>>]} :
        st \in {SubtaskStateFailed, SubtaskStateCanceled}, e \in StoredErrors}

InitErrors ==
    /\ now = 0
    /\ \E e \in StoredErrors : tasks = {[NewTaskRow(1, "m0") EXCEPT !.error = e]}
    /\ subtasks \in ErrorTables
    /\ nextSubtaskID = 3
    /\ pc = [s \in Schedulers |-> "idle"]
    /\ call = [s \in Schedulers |-> EmptyCall]
    /\ planLen = [p \in 1..MaxStep |-> 0]
    /\ ret = NoRet
    /\ nextTaskID = 2
    /\ taskHistory = {}
    /\ subtaskHistory = {}
    /\ nodeMeta = {[host |-> "n1", role |-> "", cpu_count |-> 1]}
    /\ returned = {}

NextErrors ==
    \/ \E err \in CallerErrors : FailSubtask("n1", 1, err)
    \/ \E err \in CallerErrors :
          UpdateSubtaskStateAndError("n1", 2, SubtaskStateFailed, err)
    \/ \E task \in LegacyTasks, prevState \in PrevStates :
          UpdateTaskAndAddSubTasks(task, <<>>, prevState, TRUE, "none")
    \/ GetTaskByIDError(1)
    \/ CollectSubTaskError(1)

SpecErrors == InitErrors /\ [][NextErrors]_vars

\* SpecStates: two pending subtasks of task 1; executors, the owner or not,
\* start, finish, fail, cancel and pause them and set their state, the
\* scheduler resumes and reverts them and the balancer moves them.
StateTables ==
    {{[id |-> i, step |-> 1, task_key |-> 1, exec_id |-> ex[i],
       meta |-> SubtaskMeta(i), state |-> SubtaskStatePending,
       concurrency |-> 1, ordinal |-> i, error |-> <<>>,
       state_update_time |-> <<>>] : i \in 1..2} :
        ex \in {<<"n1", "n1">>, <<"n1", "n2">>}}

InitStates ==
    /\ now = 0
    /\ tasks = {NewTaskRow(1, "m0")}
    /\ subtasks \in StateTables
    /\ nextSubtaskID = 3
    /\ pc = [s \in Schedulers |-> "idle"]
    /\ call = [s \in Schedulers |-> EmptyCall]
    /\ planLen = [p \in 1..MaxStep |-> 0]
    /\ ret = NoRet
    /\ nextTaskID = 2
    /\ taskHistory = {}
    /\ subtaskHistory = {}
    /\ nodeMeta = {[host |-> "n1", role |-> "", cpu_count |-> 1]}
    /\ returned = {}

NextStates ==
    \/ \E id \in 1..2, e \in Nodes : StartSubtask(id, e)
    \/ \E r \in subtasks, e \in Nodes : FinishSubtask(e, r.id, r.meta)
    \/ \E id \in 1..2, e \in Nodes, st \in {SubtaskStateFailed, SubtaskStatePending} :
          UpdateSubtaskStateAndError(e, id, st, NilErr)
    \/ \E e \in Nodes : FailSubtask(e, 1, SubtaskError)
    \/ \E e \in Nodes : CancelSubtask(e, 1)
    \/ \E e \in Nodes : PauseSubtasks(e, 1)
    \/ ResumeSubtasks(1)
    \/ \E o \in RevertedSubtasks : RunningSubtasksBack2Pending(<<o>>)
    \/ \E o \in BalancedSubtasks : UpdateSubtasksExecIDs(<<o>>)

SpecStates == InitStates /\ [][NextStates]_vars

\* SpecOrder: one scheduler calls SwitchTaskStepInBatch for task 1 with task
\* objects of its own making and repeats calls that ended; the count
\* statement and any batch insert may fail.
NextOrder ==
    \/ \E task \in {t \in TaskObjects : t.ID = 1} : HoldTask("s1", task)
    \/ \E nextState \in CallerTaskStates, nextStep \in CallerSteps, n \in 0..MaxSubtasks :
          \/ SwitchTaskStepInBatch_count("s1", nextState, nextStep,
                 NewSubtasks(call["s1"].task.ID, nextStep, n))
          \/ SwitchTaskStepInBatch_countErr("s1", nextState, nextStep,
                 NewSubtasks(call["s1"].task.ID, nextStep, n))
    \/ SwitchTaskStepInBatch_insert("s1")
    \/ SwitchTaskStepInBatch_insertErr("s1")
    \/ SwitchTaskStepInBatch_update("s1")
    \/ Return("s1")
    \/ Retry("s1")

SpecOrder == InitSeq /\ [][NextOrder]_vars

\* SpecSteps: a scheduler reads task 1 and calls SwitchTaskStep or
\* SwitchTaskStepInBatch with the task it read, any target step and no
\* subtasks, while UpdateTaskAndAddSubTasks is called for the task with any
\* step, between the calls and between the statements of the batch path.
NextSteps ==
    \/ GetTaskByID("s1", 1)
    \/ \E nextStep \in CallerSteps :
          \/ SwitchTaskStep_update("s1", TaskStateRunning, nextStep, <<>>)
          \/ SwitchTaskStepInBatch_count("s1", TaskStateRunning, nextStep, <<>>)
    \/ SwitchTaskStep_insert("s1")
    \/ SwitchTaskStepInBatch_update("s1")
    \/ Return("s1")
    \/ \E task \in {t \in LegacyTasks : t.Error = NilErr}, prevState \in PrevStates :
          /\ ~TaskRowLocked(task.ID)
          /\ UpdateTaskAndAddSubTasks(task, <<>>, prevState, FALSE, "none")

SpecSteps == InitSeq /\ [][NextSteps]_vars

\* SpecStart: a scheduler calls SwitchTaskStep or SwitchTaskStepInBatch for
\* task 1 with a task object of its own making, any target and no subtasks,
\* while time passes (between the statements of a transaction it does not).
NextStart ==
    \/ \E task \in {t \in TaskObjects : t.ID = 1} : HoldTask("s1", task)
    \/ \E nextState \in CallerTaskStates, nextStep \in CallerSteps :
          \/ SwitchTaskStep_update("s1", nextState, nextStep, <<>>)
          \/ SwitchTaskStepInBatch_count("s1", nextState, nextStep, <<>>)
    \/ SwitchTaskStep_insert("s1")
    \/ SwitchTaskStepInBatch_update("s1")
    \/ Return("s1")
    \/ pc["s1"] # "sts_updated" /\ Tick(1)

SpecStart == InitSeq /\ [][NextStart]_vars

\* SpecDeadNodes: a scheduler switches task 1 to step 1 once, nodes register
\* and the scheduler deletes the nodes it takes for dead.
NextDeadNodes ==
    \/ GetTaskByID("s1", 1)
    \/ /\ call["s1"].task.Step = StepInit
       /\ SwitchTaskStep_update("s1", TaskStateRunning, 1, PlannedList(1))
    \/ SwitchTaskStep_insert("s1")
    \/ \E e \in Nodes : InitMeta(e, "", 1)
    \/ \E nodes \in DeadNodeLists : DeleteDeadNodes(nodes)

SpecDeadNodes == InitExec /\ [][NextDeadNodes]_vars

----
\* The claims.

\* the live row of task id is at (state, step)
TaskRowAt(id, state, step) ==
    \E r \in tasks : r.id = id /\ r.state = state /\ r.step = step

\* s has ended a call of kind op
Ended(s, op) == pc[s] = "done" /\ call[s].op = op

\* s has ended the second of two SwitchTaskStep calls with the same
\* arguments, the first of which matched the live row and succeeded, and no
\* statement of the second failed
SecondOfTwo(s) ==
    /\ Ended(s, "SwitchTaskStep")
    /\ call[s].attempt = 2
    /\ call[s].prevResult = NoError
    /\ call[s].prevAffected = 1
    /\ call[s].result # StoreError

\* what C1 says of the second call: it succeeds and writes nothing, the task
\* is at the target and (task, nextStep) has one list more than before the
\* first call
OneSetOnly(s) ==
    LET c == call[s]
    IN /\ c.result = NoError
       /\ tasks = c.pre.tasks
       /\ subtasks = c.pre.subtasks
       /\ CountSubtasks(c.task.ID, c.nextStep) = c.cnt0 + Len(c.subtasks)
       /\ TaskRowAt(c.task.ID, c.nextState, c.nextStep)

C2_OneEffectiveSwitch ==
    \A p \in 1..MaxStep :
        LET L == ListContent(PlannedList(p))
            D == {s \in Schedulers :
                     /\ Ended(s, "SwitchTaskStep")
                     /\ call[s].nextStep = p
                     /\ call[s].result = NoError}
        IN /\ PersistedList(1, p) \in {<<>>, L}
           /\ \A s \in D :
                 /\ PersistedList(1, p) = L
                 /\ \/ call[s].affected = 1 /\ call[s].inserted = Len(L)
                    \/ call[s].affected = 0 /\ call[s].inserted = 0 /\ ~call[s].wrote
           /\ D = Schedulers =>
                 /\ TaskRowAt(1, TaskStateRunning, p)
                 /\ Cardinality({s \in D : call[s].affected = 1}) = 1

C2_Witness ==
    /\ planLen[1] = MaxSubtasks
    /\ \A s \in Schedulers :
          /\ Ended(s, "SwitchTaskStep")
          /\ call[s].task.State = TaskStatePending
          /\ call[s].task.Step = StepInit
          /\ call[s].nextStep = 1
          /\ call[s].result = NoError
    /\ \E s \in Schedulers : call[s].affected = 0

\* C3: SwitchTaskStep is atomic: the task row shows a step exactly when the
\* full list of that step is persisted, and a call whose insert statement
\* failed returns the error and has written neither the task row nor a subtask.
C3_Atomic ==
    /\ \A p \in 1..MaxStep :
          IF \E r \in tasks : r.id = 1 /\ r.step >= p
             THEN PersistedList(1, p) = ListContent(PlannedList(p))
             ELSE SubtaskRows(1, p) = {}
    /\ \A s \in Schedulers :
          (Ended(s, "SwitchTaskStep") /\ call[s].affected = 1
              /\ call[s].result # NoError)
          => /\ call[s].result = StoreError
             /\ ~call[s].wrote
             /\ call[s].inserted = 0

C3_Witness ==
    \E s \in Schedulers :
        /\ Ended(s, "SwitchTaskStep")
        /\ call[s].affected = 1
        /\ call[s].result = StoreError
        /\ TaskRowAt(1, call[s].task.State, call[s].task.Step)
        /\ SubtaskRows(1, call[s].nextStep) = {}

\* C4: a SwitchTaskStep whose predicate matches no live row (the row was
\* advanced, or there is no such task) returns success, inserts nothing and
\* leaves both tables as they were.
C4_MissIsNoOp ==
    \A s \in Schedulers :
        (/\ Ended(s, "SwitchTaskStep")
         /\ ~\E r \in call[s].pre.tasks :
                /\ r.id = call[s].task.ID
                /\ r.state = call[s].task.State
                /\ r.step = call[s].task.Step)
        => /\ call[s].result = NoError
           /\ tasks = call[s].pre.tasks
           /\ subtasks = call[s].pre.subtasks

C4_Witness ==
    \E s \in Schedulers :
        /\ Ended(s, "SwitchTaskStep")
        /\ call[s].affected = 0
        /\ Len(call[s].subtasks) > 0
        /\ \E r \in tasks : r.id = call[s].task.ID /\ r.step # call[s].task.Step

\* the rows of (task, nextStep) that s's call found
FoundRows(s) ==
    {r \in call[s].pre.subtasks :
        r.task_key = call[s].task.ID /\ r.step = call[s].nextStep}

\* C5: SwitchTaskStepInBatch called with a list shorter than the N rows that
\* exist for (task, nextStep) fails with ErrUnstableSubtasks and changes no
\* table; with N <= len(list) it never fails with ErrUnstableSubtasks.
C5_UnstableDetection ==
    \A s \in Schedulers :
        Ended(s, "SwitchTaskStepInBatch") =>
            IF Cardinality(FoundRows(s)) > Len(call[s].subtasks)
               THEN /\ call[s].result = ErrUnstableSubtasks
                    /\ tasks = call[s].pre.tasks
                    /\ subtasks = call[s].pre.subtasks
               ELSE call[s].result # ErrUnstableSubtasks

C5_Witness ==
    \E s \in Schedulers :
        /\ Ended(s, "SwitchTaskStepInBatch")
        /\ Cardinality(FoundRows(s)) > Len(call[s].subtasks)
        /\ Len(call[s].subtasks) > 0
        /\ call[s].result = ErrUnstableSubtasks

\* C6: when one scheduler's attempts with the list L started from no row of
\* (task, nextStep) and a task object matching the live row, an attempt that
\* runs to completion, after any number that failed midway, leaves the rows of
\* (task, nextStep) equal to L element by element and the task at the target.
C6_ResumeAfterPartial ==
    \A s \in Schedulers :
        (/\ Ended(s, "SwitchTaskStepInBatch")
         /\ call[s].result = NoError
         /\ call[s].cnt0 = 0
         /\ call[s].fresh0)
        => /\ PersistedList(call[s].task.ID, call[s].nextStep)
                 = ListContent(call[s].subtasks)
           /\ TaskRowAt(call[s].task.ID, call[s].nextState, call[s].nextStep)

C6_Witness ==
    \E s \in Schedulers :
        /\ Ended(s, "SwitchTaskStepInBatch")
        /\ call[s].result = NoError
        /\ call[s].cnt0 = 0
        /\ call[s].fresh0
        /\ call[s].prevResult = StoreError
        /\ call[s].existing > 0
        /\ call[s].existing < Len(call[s].subtasks)

\* s takes the last step of SwitchTaskStepInBatch, the task-row update, and
\* the statement succeeds
BatchUpdateStep(s) ==
    /\ pc[s] = "batch"
    /\ pc'[s] = "done"
    /\ call'[s].result = NoError

\* C7 as stated: the update of SwitchTaskStepInBatch takes effect whatever
\* (state, step) the live row holds.
C7_Unconditional ==
    [][\A s \in Schedulers :
          BatchUpdateStep(s) =>
              \A r \in tasks :
                  r.id = call[s].task.ID =>
                      \E q \in tasks' :
                          /\ q.id = r.id
                          /\ q.state = call[s].nextState
                          /\ q.step = call[s].nextStep]_vars

\* C7: once every batch is inserted, SwitchTaskStepInBatch updates the task
\* row to (nextState, nextStep) only if the live row still holds the state and
\* step of the task object; otherwise the update affects no row, the task
\* table stays as it is and the call still returns success.
C7_Conditional ==
    [][\A s \in Schedulers :
          BatchUpdateStep(s) =>
              LET c == call[s]
                  M == {r \in tasks : r.id = c.task.ID /\ r.state = c.task.State
                                         /\ r.step = c.task.Step}
              IN IF M = {}
                    THEN tasks' = tasks
                    ELSE /\ \A r \in tasks \ M : r \in tasks'
                         /\ \A r \in M :
                               \E q \in tasks' :
                                   /\ q.id = r.id
                                   /\ q.state = c.nextState
                                   /\ q.step = c.nextStep
                                   /\ q.meta = c.task.Meta]_vars

C7_Witness ==
    \E s \in Schedulers :
        /\ Ended(s, "SwitchTaskStepInBatch")
        /\ call[s].result = NoError
        /\ call[s].affected = 0
        /\ \E r \in tasks : r.id = call[s].task.ID /\ r.step # call[s].nextStep

\* C8: two schedulers calling SwitchTaskStepInBatch for the same task and
\* step with the same list L never leave more than len(L) rows for the step,
\* and every element of L is persisted at most once.
C8_NoDuplicates ==
    \A p \in 1..MaxStep :
        /\ CountSubtasks(1, p) <= planLen[p]
        /\ \A r1, r2 \in SubtaskRows(1, p) : r1.ordinal = r2.ordinal => r1 = r2

\* the last step was a call of op
Called(op) == ret'.op = op

C10_FailsOne ==
    [][Called("FailSubtask") =>
          LET M == {r \in subtasks :
                       /\ r.exec_id = ret'.exec
                       /\ r.task_key = ret'.task
                       /\ r.state \in {SubtaskStatePending, SubtaskStateRunning}}
          IN /\ ret'.result = NoError
             /\ IF ret'.err = NilErr \/ M = {}
                   THEN subtasks' = subtasks
                   ELSE \E r \in M :
                           subtasks' = (subtasks \ {r})
                               \cup {[r EXCEPT !.state = SubtaskStateFailed,
                                               !.error = serializeErr(ret'.err),
                                               !.state_update_time = <<now>>]}]_vars

C10_Witness ==
    /\ ret.op = "FailSubtask"
    /\ ret.err # NilErr
    /\ Cardinality({r \in subtasks :
           r.exec_id = ret.exec /\ r.task_key = ret.task}) >= 2
    /\ \E r1, r2 \in subtasks :
          /\ r1.exec_id = ret.exec /\ r2.exec_id = ret.exec
          /\ r1.state = SubtaskStateFailed
          /\ r1.error = serializeErr(ret.err)
          /\ r2.state = SubtaskStatePending

\* C11: RunningSubtasksBack2Pending(list) returns success and sets to pending
\* exactly the rows that, for some object of the list, still have the object's
\* id and exec_id and are running; a row that moved to another state or to
\* another node, and every row the list does not name, is left as it is.
C11_RevertsOnlyStillRunning ==
    [][Called("RunningSubtasksBack2Pending") =>
          LET list == ret'.arg
              hit(r) == \E i \in 1..Len(list) :
                           /\ r.id = list[i].ID
                           /\ r.exec_id = list[i].ExecID
                           /\ r.state = SubtaskStateRunning
          IN /\ ret'.result = NoError
             /\ subtasks' = {IF hit(r)
                                THEN [r EXCEPT !.state = SubtaskStatePending,
                                               !.state_update_time = <<now>>]
                                ELSE r : r \in subtasks}
             /\ tasks' = tasks]_vars

C11_Witness ==
    /\ ret.op = "RunningSubtasksBack2Pending"
    /\ \E i, j \in 1..Len(ret.arg) : \E r1, r2 \in subtasks :
          /\ r1.id = ret.arg[i].ID
          /\ r1.exec_id = ret.arg[i].ExecID
          /\ r1.state = SubtaskStateSucceed
          /\ r2.id = ret.arg[j].ID
          /\ r2.exec_id # ret.arg[j].ExecID
          /\ r2.state = SubtaskStateRunning

\* C12: after TransferTasks2History(list) returns success, for every task T of
\* the list that had a live row: GetTaskByID(T.ID) fails with ErrTaskNotFound,
\* GetTaskByIDWithHistory(T.ID) returns the task with T's meta and the state
\* and step of the row, and every subtask of T is gone from the live subtask
\* table and present in the subtask history.
C12_HistoryRoundTrip ==
    [][(Called("TransferTasks2History") /\ ret'.result = NoError) =>
          \A i \in 1..Len(ret'.arg) :
             LET T == ret'.arg[i]
                 live == {r \in tasks : r.id = T.ID}
             IN live # {} =>
                   /\ GetTaskByIDResult(tasks', T.ID) =
                         {[task |-> NoTask, err |-> ErrTaskNotFound]}
                   /\ GetTaskByIDWithHistoryResult(tasks', taskHistory', T.ID) =
                         {[task |-> [ID |-> T.ID, State |-> r.state,
                                     Step |-> r.step, Meta |-> T.Meta],
                           err |-> NoError] : r \in live}
                   /\ \A r \in subtasks :
                         r.task_key = T.ID =>
                            r \notin subtasks' /\ r \in subtaskHistory']_vars

\* C13: GCSubtasks deletes from the subtask history exactly the rows whose
\* update time is more than the retention (14 days, in seconds) before the
\* clock; a row at the boundary or younger, a row with no update time, the
\* live subtasks, the tasks and the task history are left as they are.
C13_RetentionBoundary ==
    [][Called("GCSubtasks") =>
          /\ subtaskHistory' =
                {r \in subtaskHistory :
                    \/ r.state_update_time = <<>>
                    \/ r.state_update_time[1] + 14 * 24 * 60 * 60 >= now}
          /\ subtasks' = subtasks
          /\ tasks' = tasks
          /\ taskHistory' = taskHistory]_vars

\* a collection at the boundary: a row exactly the retention old was kept
\* while an older one was deleted
C13_Witness ==
    /\ ret.op = "GCSubtasks"
    /\ \E r \in subtaskHistory :
          /\ r.state_update_time # <<>>
          /\ r.state_update_time[1] = now - subtaskHistoryKeepSeconds
    /\ Cardinality(subtaskHistory) + Cardinality(subtasks) < planLen[1]

\* the position of a host in the order of the host column
HostIndex(h) == CHOOSE i \in 1..Len(HostOrder) : HostOrder[i] = h

\* the registry rows the scheduler manages: those of role "background", or
\* when there is none those of no role
ManagedRows ==
    LET bg == {r \in nodeMeta : r.role = "background"}
    IN IF bg # {} THEN bg ELSE {r \in nodeMeta : r.role = ""}

\* C17: GetCPUCountOfManagedNode returns the CPU count of the first managed
\* node in host order that has a positive one; it fails with "no managed
\* nodes" when there is no managed node and with "no managed node have enough
\* resource" when none has a positive count.
C17_FirstPositiveCPU ==
    [][Called("GetCPUCountOfManagedNode") =>
          LET pos == {r \in ManagedRows : r.cpu_count > 0}
          IN IF ManagedRows = {} THEN ret'.result = ErrNoManagedNodes
             ELSE IF pos = {} THEN ret'.result = ErrNoUsableCapacity
             ELSE /\ ret'.result = NoError
                  /\ \E r \in pos :
                        /\ ret'.val = <<r.cpu_count>>
                        /\ \A q \in pos : HostIndex(r.host) <= HostIndex(q.host)]_vars

\* the count returned is smaller than that of another managed node
C17_Witness ==
    /\ ret.op = "GetCPUCountOfManagedNode"
    /\ ret.result = NoError
    /\ \E r \in ManagedRows : r.cpu_count > ret.val[1]
    /\ Cardinality(ManagedRows) = 2

\* C18: GetManagedNodes returns, in host order, exactly the nodes of role
\* "background" when there is one, and otherwise exactly the nodes of no role;
\* a node of another role is never returned.
C18_ManagedView ==
    [][Called("GetManagedNodes") =>
          LET val == ret'.val
          IN /\ ret'.result = NoError
             /\ {val[i] : i \in 1..Len(val)} =
                   {[ID |-> r.host, Role |-> r.role, CPUCount |-> r.cpu_count] :
                       r \in ManagedRows}
             /\ \A i, j \in 1..Len(val) :
                   i < j => HostIndex(val[i].ID) < HostIndex(val[j].ID)
             /\ \A i \in 1..Len(val) : val[i].Role \in {"background", ""}]_vars

\* the view is the background node although a node of no role is registered
C18_Witness ==
    /\ ret.op = "GetManagedNodes"
    /\ Len(ret.val) = 1
    /\ ret.val[1].Role = "background"
    /\ \E r \in nodeMeta : r.role = ""

\* C19: the registry holds at most one row per host; InitMeta sets the host's
\* row to the given role and CPU count; RecoverMeta on a registered host sets
\* only the CPU count and keeps the stored role, on an absent host it inserts
\* the row with the given role; the rows of other hosts are left as they are.
C19_Upsert ==
    [][(Called("InitMeta") \/ Called("RecoverMeta")) =>
          LET e == ret'.exec
              role == ret'.arg[1]
              cpuCount == ret'.arg[2]
              old == {r \in nodeMeta : r.host = e}
              others == {r \in nodeMeta : r.host # e}
              given == [host |-> e, role |-> role, cpu_count |-> cpuCount]
          IN /\ \A r1, r2 \in nodeMeta' : r1.host = r2.host => r1 = r2
             /\ IF Called("InitMeta") \/ old = {}
                   THEN nodeMeta' = others \cup {given}
                   ELSE nodeMeta' = others \cup
                           {[given EXCEPT !.role = r.role] : r \in old}]_vars

\* a RecoverMeta that kept a role other than the one it was given, next to
\* the row of another host
C19_Witness ==
    /\ ret.op = "RecoverMeta"
    /\ \E r \in nodeMeta :
          /\ r.host = ret.exec
          /\ r.role # ret.arg[1]
          /\ r.cpu_count = ret.arg[2]
    /\ \E r \in nodeMeta : r.host # ret.exec

\* C20: DeleteDeadNodes(nodes) deletes exactly the registry rows whose host is
\* in the list and leaves the other rows, the tasks and the subtasks (also
\* those whose exec_id names a deleted node) as they are; with an empty list
\* it changes nothing.
C20_DeletesListedOnly ==
    [][Called("DeleteDeadNodes") =>
          LET nodes == ret'.arg
          IN /\ ret'.result = NoError
             /\ nodeMeta' = {r \in nodeMeta :
                                \A i \in 1..Len(nodes) : nodes[i] # r.host}
             /\ tasks' = tasks
             /\ subtasks' = subtasks
             /\ taskHistory' = taskHistory
             /\ subtaskHistory' = subtaskHistory]_vars

\* a node was deleted while a subtask names it and another node stays
C20_Witness ==
    /\ ret.op = "DeleteDeadNodes"
    /\ \E r \in subtasks :
          /\ \E i \in 1..Len(ret.arg) : ret.arg[i] = r.exec_id
          /\ \A m \in nodeMeta : m.host # r.exec_id
    /\ nodeMeta # {}

\* the first positive CPU count of the managed rows in host order, as a set:
\* empty when there is none
Capacity ==
    LET pos == {r \in ManagedRows : r.cpu_count > 0}
    IN {r.cpu_count : r \in {p \in pos : \A q \in pos : HostIndex(p.host) <= HostIndex(q.host)}}

\* C14: CreateTask with concurrency c succeeds exactly when the managed nodes
\* have a capacity k and c <= k; with no managed node it fails with "no
\* managed nodes".
C14_CapacityGate ==
    [][Called("CreateTask") =>
          /\ (ret'.result = NoError) <=> (\E k \in Capacity : ret'.arg[3] <= k)
          /\ ManagedRows = {} => ret'.result = ErrNoManagedNodes]_vars

\* a task is created with a concurrency equal to the capacity
C14_Witness ==
    /\ ret.op = "CreateTask"
    /\ ret.result = NoError
    /\ Capacity = {ret.arg[3]}
    /\ ret.arg[3] = MaxCPU

\* C15: a CreateTask that succeeds adds exactly one row, pending, at the
\* init step, of normal priority, with the key, type, concurrency and meta
\* given, and returns its id, which no row had; a CreateTask that fails
\* leaves the task table as it was; no other row changes either way.
C15_CreateEffect ==
    [][Called("CreateTask") =>
          IF ret'.result = NoError
          THEN /\ tasks \subseteq tasks'
               /\ \A r \in tasks : r.id # ret'.id
               /\ \E r \in tasks' :
                     /\ tasks' \ tasks = {r}
                     /\ r.id = ret'.id
                     /\ r.state = TaskStatePending
                     /\ r.step = StepInit
                     /\ r.priority = NormalPriority
                     /\ <<r.task_key, r.type, r.concurrency, r.meta>> = ret'.arg
          ELSE tasks' = tasks]_vars

\* a second task was created next to the first
C15_Witness ==
    /\ ret.op = "CreateTask"
    /\ ret.result = NoError
    /\ ret.arg[1] = "k2"
    /\ Cardinality(tasks) = 2

\* a CreateTask that failed for a concurrency above the capacity
C15_WitnessFailed ==
    /\ ret.op = "CreateTask"
    /\ ret.result = ErrConcurrencyExceeds

\* C16: CreateTask with a key a live task row has fails with "task already
\* exists" and adds no row, so that no two live task rows share a key.
C16_DuplicateKeyFlagged ==
    [][Called("CreateTask") =>
          /\ (\E r \in tasks : r.task_key = ret'.arg[1]) =>
                 ret'.result = ErrTaskAlreadyExists /\ tasks' = tasks
          /\ \A r1, r2 \in tasks' : r1.task_key = r2.task_key => r1 = r2]_vars

\* the largest concurrency among the pending and running subtasks of a task
\* on a node, 0 when there is none
SlotsOf(e, taskID) ==
    LET cs == {r.concurrency : r \in {q \in subtasks :
                  /\ q.exec_id = e /\ q.task_key = taskID
                  /\ q.state \in {SubtaskStatePending, SubtaskStateRunning}}}
    IN IF cs = {} THEN 0 ELSE CHOOSE c \in cs : \A d \in cs : d <= c

\* C21: GetUsedSlotsOnNodes maps exactly the nodes that own a pending or
\* running subtask, each to the sum over the tasks of the largest concurrency
\* among the task's pending and running subtasks on the node; subtasks in
\* another state count for nothing.
C21_UsedSlots ==
    [][Called("GetUsedSlotsOnNodes") =>
          LET slots == ret'.val[1]
          IN /\ DOMAIN slots = {e \in Nodes : SlotsOf(e, 1) + SlotsOf(e, 2) > 0}
             /\ \A e \in DOMAIN slots : slots[e] = SlotsOf(e, 1) + SlotsOf(e, 2)]_vars

\* a node holds two active subtasks of one task with different concurrencies
\* and a finished one, and is mapped to less than the sum of its rows
C21_Witness ==
    /\ ret.op = "GetUsedSlotsOnNodes"
    /\ \E r1, r2, r3 \in subtasks :
          /\ r1.id # r2.id
          /\ r1.exec_id = "n1" /\ r2.exec_id = "n1" /\ r3.exec_id = "n1"
          /\ r1.task_key = r2.task_key
          /\ r1.concurrency < r2.concurrency
          /\ r1.state = SubtaskStatePending /\ r2.state = SubtaskStateRunning
          /\ r3.state = SubtaskStateSucceed
          /\ "n1" \in DOMAIN ret.val[1]
          /\ ret.val[1]["n1"] = r2.concurrency

\* a task object comes before another by priority, then create time, then id
Precedes(a, b) ==
    \/ a.Priority < b.Priority
    \/ a.Priority = b.Priority /\ a.CreateTime < b.CreateTime
    \/ a.Priority = b.Priority /\ a.CreateTime = b.CreateTime /\ a.ID < b.ID

\* the sequence res holds the first tasks, at most TopLimit, of the live
\* tasks whose state is in S, in the order of priority, create time and id
IsTopOf(res, S) ==
    LET cand == {r \in tasks : r.state \in S}
        got == {res[i].ID : i \in 1..Len(res)}
    IN /\ Len(res) = Min(Cardinality(cand), TopLimit)
       /\ \A i \in 1..Len(res) :
             \E r \in cand : /\ r.id = res[i].ID /\ r.state = res[i].State
                              /\ r.priority = res[i].Priority
                              /\ r.create_time = res[i].CreateTime
       /\ \A i, j \in 1..Len(res) : i < j => Precedes(res[i], res[j])
       /\ \A r \in cand : r.id \notin got =>
             \A i \in 1..Len(res) :
                Precedes(res[i], [ID |-> r.id, Priority |-> r.priority,
                                  CreateTime |-> r.create_time])

\* C22: GetTopUnfinishedTasks returns the live tasks in every state other
\* than succeed, failed and reverted, ordered by priority, create time and id,
\* cut to the first 2 * MaxConcurrentTask.
C22_TopNonTerminal ==
    [][Called("GetTopUnfinishedTasks") =>
          IsTopOf(ret'.val, TaskStates \ {TaskStateSucceed, TaskStateFailed,
                                            TaskStateReverted})]_vars

\* C22, amended: GetTopUnfinishedTasks returns the live tasks in the states
\* pending, running, reverting, cancelling, pausing and resuming, ordered by
\* priority, create time and id, cut to the first 2 * MaxConcurrentTask; a
\* task that is paused, succeed, failed or reverted is never returned.
C22_TopScheduled ==
    [][Called("GetTopUnfinishedTasks") =>
          /\ IsTopOf(ret'.val, {TaskStatePending, TaskStateRunning,
                                TaskStateReverting, TaskStateCancelling,
                                TaskStatePausing, TaskStateResuming})
          /\ \A i \in 1..Len(ret'.val) :
                ret'.val[i].State \notin {TaskStatePaused, TaskStateSucceed,
                                           TaskStateFailed, TaskStateReverted}]_vars

\* the result was cut at the limit and is not in the order of the ids
C22_Witness ==
    /\ ret.op = "GetTopUnfinishedTasks"
    /\ Len(ret.val) = TopLimit
    /\ Cardinality({r \in tasks : r.state \in UnfinishedStates}) > TopLimit
    /\ ret.val[1].ID > ret.val[2].ID
    /\ ret.val[1].Priority = ret.val[2].Priority

\* a paused task is left out while the result has room
C22_WitnessPaused ==
    /\ ret.op = "GetTopUnfinishedTasks"
    /\ Len(ret.val) < TopLimit
    /\ \E r \in tasks : r.state = TaskStatePaused

\* the call was made with its update statement succeeding
CalledLegacy ==
    Called("UpdateTaskAndAddSubTasks") /\ ret'.arg[3] # "update"

\* the live task row of the task of the call is in the prevState of the call
CarriesPrevState ==
    \E r \in tasks : r.id = ret'.task /\ r.state = ret'.arg[5]

\* the call returned an error, not retryable, and wrote nothing
RefusedTransform ==
    /\ ret'.result # NoError
    /\ ret'.val = <<FALSE>>
    /\ tasks' = tasks
    /\ subtasks' = subtasks

\* the call returned no error, retryable, and inserted n subtasks of the task
ProceededWith(n) ==
    /\ ret'.result = NoError
    /\ ret'.val = <<TRUE>>
    /\ subtasks \subseteq subtasks'
    /\ Cardinality(subtasks' \ subtasks) = n
    /\ \A r \in subtasks' \ subtasks : r.task_key = ret'.task

C23_WitnessProceeded ==
    /\ ret.op = "UpdateTaskAndAddSubTasks"
    /\ ret.arg[1] = TRUE
    /\ ret.arg[2] = 0
    /\ ret.arg[4] > 0
    /\ ret.val = <<TRUE>>
    /\ ret.result = NoError
    /\ subtasks # {}

\* C28: when the insert of the subtasks fails in UpdateTaskAndAddSubTasks
\* after the update of the task row, the transaction is rolled back: the call
\* returns an error and neither the task row nor the subtasks change.
C28_InsertFailureAborts ==
    [][(Called("UpdateTaskAndAddSubTasks") /\ ret'.arg[3] = "insert" /\ ret'.arg[4] > 0) =>
          /\ ret'.result # NoError
          /\ tasks' = tasks
          /\ subtasks' = subtasks]_vars

\* what the StartSubtask of the race returned for subtask id
StartResult(id) ==
    (CHOOSE c \in returned : c.op = "StartSubtask" /\ c.id = id).result

\* C24: when StartSubtask(id, n1) and UpdateSubtasksExecIDs([{id, n2,
\* pending}]) have both returned, in either order, for a subtask that was
\* pending on n1, the row is either running on n1, the start having
\* succeeded and the move having changed nothing, or pending on n2, the
\* start having failed with ErrSubtaskNotFound.
C24_StartOrMove ==
    \A r \in subtasks :
       (HasReturned("StartSubtask", r.id) /\ HasReturned("UpdateSubtasksExecIDs", r.id)) =>
          \/ /\ r.state = SubtaskStateRunning
             /\ r.exec_id = SubtaskExec(r.id)
             /\ StartResult(r.id) = NoError
          \/ /\ r.state = SubtaskStatePending
             /\ r.exec_id = OtherNode(SubtaskExec(r.id))
             /\ StartResult(r.id) = ErrSubtaskNotFound

\* both calls returned for two subtasks: one is running where it was
\* scheduled, the other was moved and its start failed
C24_Witness ==
    \E r1, r2 \in subtasks :
       /\ HasReturned("StartSubtask", r1.id) /\ HasReturned("UpdateSubtasksExecIDs", r1.id)
       /\ HasReturned("StartSubtask", r2.id) /\ HasReturned("UpdateSubtasksExecIDs", r2.id)
       /\ r1.state = SubtaskStateRunning /\ r1.exec_id = SubtaskExec(r1.id)
       /\ r2.state = SubtaskStatePending /\ r2.exec_id = OtherNode(SubtaskExec(r2.id))

\* C25: PauseSubtasks(execID, taskID) sets to paused exactly the pending and
\* running subtasks of the task on the node; ResumeSubtasks(taskID) sets to
\* pending, with no error, exactly the paused subtasks of the task, on every
\* node; no other row changes, and a subtask that is succeed, failed or
\* canceled is left as it is by both.
C25_BulkPauseResume ==
    [][/\ Called("PauseSubtasks") =>
            /\ Cardinality(subtasks') = Cardinality(subtasks)
            /\ \A r \in subtasks :
                  IF /\ r.exec_id = ret'.exec /\ r.task_key = ret'.task
                     /\ r.state \in {SubtaskStatePending, SubtaskStateRunning}
                  THEN [r EXCEPT !.state = SubtaskStatePaused] \in subtasks'
                  ELSE r \in subtasks'
       /\ Called("ResumeSubtasks") =>
            /\ Cardinality(subtasks') = Cardinality(subtasks)
            /\ \A r \in subtasks :
                  IF r.task_key = ret'.task /\ r.state = SubtaskStatePaused
                  THEN [r EXCEPT !.state = SubtaskStatePending, !.error = <<>>]
                          \in subtasks'
                  ELSE r \in subtasks']_vars

\* a resume left the task's failed subtask and the other task's paused
\* subtask as they were and made a paused subtask pending again
C25_Witness ==
    /\ ret.op = "ResumeSubtasks"
    /\ \E r \in subtasks : r.task_key = ret.task /\ r.state = SubtaskStateFailed
                              /\ r.error # <<>>
    /\ \E r \in subtasks : r.task_key # ret.task /\ r.state = SubtaskStatePaused
    /\ \E r \in subtasks : r.task_key = ret.task /\ r.state = SubtaskStatePending
                              /\ r.state_update_time # <<>>

\* a pause took two subtasks of the task on the node
C25_WitnessPause ==
    /\ ret.op = "PauseSubtasks"
    /\ \E r1, r2 \in subtasks :
          /\ r1.id # r2.id
          /\ r1.state = SubtaskStatePaused /\ r2.state = SubtaskStatePaused
          /\ r1.exec_id = ret.exec /\ r2.exec_id = ret.exec
          /\ r1.task_key = ret.task /\ r2.task_key = ret.task
    /\ \E r \in subtasks : r.state = SubtaskStatePending

\* the pending and running subtasks of a task on a node
ActiveRows(tbl, execID, taskID) ==
    {r \in tbl : /\ r.exec_id = execID /\ r.task_key = taskID
                  /\ r.state \in {SubtaskStatePending, SubtaskStateRunning}}

\* C26: CancelSubtask(execID, taskID) returns nil and changes at most one
\* row: when pending or running subtasks of the task are on the node exactly
\* one of them becomes canceled and every other row is left as it is, so
\* that k such subtasks take k calls; when there is none nothing changes.
C26_CancelsOne ==
    [][Called("CancelSubtask") =>
          LET M == ActiveRows(subtasks, ret'.exec, ret'.task)
          IN /\ ret'.result = NoError
             /\ IF M = {} THEN subtasks' = subtasks
                ELSE /\ \E r \in M :
                           /\ subtasks \ {r} \subseteq subtasks'
                           /\ \E q \in subtasks' \ subtasks :
                                 /\ q.id = r.id
                                 /\ q.state = SubtaskStateCanceled
                                 /\ subtasks' = (subtasks \ {r}) \cup {q}
                     /\ Cardinality(ActiveRows(subtasks', ret'.exec, ret'.task))
                           = Cardinality(M) - 1]_vars

\* one subtask was canceled and another of the same task on the same node is
\* still pending or running
C26_Witness ==
    /\ ret.op = "CancelSubtask"
    /\ \E r \in subtasks : /\ r.exec_id = ret.exec /\ r.task_key = ret.task
                              /\ r.state = SubtaskStateCanceled
    /\ ActiveRows(subtasks, ret.exec, ret.task) # {}

\* C27: FinishSubtask(execID, id, meta) sets the row of that id owned by
\* execID to succeed with the given meta, and UpdateSubtaskStateAndError sets
\* it to the given state and error, whatever its state; when no row of that
\* id is owned by execID both return nil and change nothing; no other row
\* changes.
C27_ByIDAndExec ==
    [][/\ Called("FinishSubtask") =>
            /\ ret'.result = NoError
            /\ Cardinality(subtasks') = Cardinality(subtasks)
            /\ \A r \in subtasks :
                  IF r.id = ret'.id /\ r.exec_id = ret'.exec
                  THEN \E q \in subtasks' :
                          /\ q.id = r.id /\ q.state = SubtaskStateSucceed
                          /\ q.meta = ret'.arg[1]
                          /\ q.exec_id = r.exec_id /\ q.task_key = r.task_key
                          /\ q.error = r.error
                  ELSE r \in subtasks'
       /\ Called("UpdateSubtaskStateAndError") =>
            /\ ret'.result = NoError
            /\ Cardinality(subtasks') = Cardinality(subtasks)
            /\ \A r \in subtasks :
                  IF r.id = ret'.id /\ r.exec_id = ret'.exec
                  THEN \E q \in subtasks' :
                          /\ q.id = r.id /\ q.state = ret'.arg[1]
                          /\ (q.error = <<>>) <=> (ret'.err = NilErr)
                          /\ q.error # <<>> => q.error[1].message = ret'.err.msg
                          /\ q.exec_id = r.exec_id /\ q.task_key = r.task_key
                          /\ q.meta = r.meta
                  ELSE r \in subtasks']_vars

\* a subtask that had failed with an error was finished
C27_Witness ==
    /\ ret.op = "FinishSubtask"
    /\ \E r \in subtasks : /\ r.id = ret.id /\ r.exec_id = ret.exec
                              /\ r.state = SubtaskStateSucceed
                              /\ r.meta = ret.arg[1]
                              /\ r.error # <<>>
    /\ \E r \in subtasks : r.id # ret.id /\ r.state = SubtaskStatePending

\* a call by a node that does not own the subtask changed nothing
C27_WitnessNotOwner ==
    /\ ret.op = "UpdateSubtaskStateAndError"
    /\ \E r \in subtasks : /\ r.id = ret.id /\ r.exec_id # ret.exec
                              /\ r.state = SubtaskStatePending

\* the ids of the rows of a table
IDsOf(tbl) == {r.id : r \in tbl}

\* C29: TransferTasks2History is all or nothing: when a statement of it
\* fails, the delete from the live task table included, the call returns an
\* error and no table changes; and after every call each task and each
\* subtask created so far is either live or in the history, never in both
\* and never in neither.
C29_AllOrNothing ==
    [][Called("TransferTasks2History") =>
          /\ ret'.val # <<"none">> =>
                /\ ret'.result # NoError
                /\ UNCHANGED <<tasks, taskHistory, subtasks, subtaskHistory>>
          /\ IDsOf(tasks') \cap IDsOf(taskHistory') = {}
          /\ IDsOf(tasks') \cup IDsOf(taskHistory') = 1..(nextTaskID - 1)
          /\ IDsOf(subtasks') \cap IDsOf(subtaskHistory') = {}
          /\ IDsOf(subtasks') \cup IDsOf(subtaskHistory') = 1..(nextSubtaskID - 1)]_vars

\* what reading the error bytes of a column must give: no error for NULL, a
\* plain-text error of the raw bytes when they are malformed, else the
\* structured error
ReadBack(col) ==
    IF col = <<>> THEN NilErr
    ELSE IF UnmarshalFails(col[1]) THEN NewError(col[1])
    ELSE UnmarshalJSON(col[1])

\* the written error read back: none for nil, else structured with its message
SameMessage(read, written) ==
    IF written = NilErr THEN read = NilErr
    ELSE read.kind = "normalized" /\ read.msg = written.msg

\* C30: stored errors never fail a read: the error FailSubtask,
\* UpdateSubtaskStateAndError and UpdateTaskAndAddSubTasks write reads back
\* as a structured error with the same message, a nil error as no error;
\* and reading the task and collecting the subtask errors succeed on
\* malformed bytes too, which give a plain-text error of the raw bytes (no
\* bytes at all may also be collected as no error).
C30_StoredErrorsReadable ==
    [][/\ Called("FailSubtask") =>
              \A r \in subtasks' :
                  r \notin subtasks => SameMessage(CollectedError(r), ret'.err)
       /\ Called("UpdateSubtaskStateAndError") =>
              \A r \in subtasks' :
                  r \notin subtasks => SameMessage(CollectedError(r), ret'.err)
       /\ (Called("UpdateTaskAndAddSubTasks") /\ ret'.result = NoError) =>
              \A r \in tasks' :
                  r.id = ret'.task => SameMessage(TaskError(r), ret'.err)
       /\ Called("GetTaskByIDError") =>
              /\ ret'.result = NoError
              /\ \A r \in tasks : r.id = ret'.task => ret'.err = ReadBack(r.error)
       /\ Called("CollectSubTaskError") =>
              LET rs == SortByID({r \in subtasks : FailedOrCanceled(r, ret'.task)})
              IN /\ ret'.result = NoError
                 /\ Len(ret'.val) = Len(rs)
                 /\ \A i \in 1..Len(rs) :
                        \/ ret'.val[i] = ReadBack(rs[i].error)
                        \/ /\ rs[i].error # <<>>
                           /\ NoBytes(rs[i].error[1])
                           /\ ret'.val[i] = NilErr]_vars

\* the terminal states of a subtask
SubtaskTerminal == {SubtaskStateSucceed, SubtaskStateFailed, SubtaskStateCanceled}

\* the states a subtask may be failed, canceled or paused from
SubtaskActive == {SubtaskStatePending, SubtaskStateRunning}

\* the state changes of the claim's diagram
DiagramEdge(from, to) ==
    \/ from = SubtaskStatePending /\ to = SubtaskStateRunning
    \/ from \in SubtaskActive /\ to \in SubtaskTerminal
    \/ from \in SubtaskActive /\ to = SubtaskStatePaused
    \/ from = SubtaskStatePaused /\ to = SubtaskStatePending

\* the rows of the step with the state they had and the state they have
StateChanges ==
    {<<r, q>> \in subtasks \X subtasks' : r.id = q.id /\ r.state # q.state}

\* C31 (as stated): a subtask in succeed, failed or canceled never changes
\* state under the operations of the subtask store, and every change of
\* state is one of pending -> running -> {succeed, failed, canceled} and
\* pending/running -> paused -> pending.
C31_TerminalAbsorbing ==
    [][\A c \in StateChanges :
          /\ c[1].state \notin SubtaskTerminal
          /\ DiagramEdge(c[1].state, c[2].state)]_vars

\* the state changes an operation with a predicate on the state makes
GuardedEdge(op, from, to) ==
    \/ op = "FailSubtask" /\ from \in SubtaskActive /\ to = SubtaskStateFailed
    \/ op = "CancelSubtask" /\ from \in SubtaskActive /\ to = SubtaskStateCanceled
    \/ op = "PauseSubtasks" /\ from \in SubtaskActive /\ to = SubtaskStatePaused
    \/ op = "ResumeSubtasks" /\ from = SubtaskStatePaused /\ to = SubtaskStatePending
    \/ /\ op = "RunningSubtasksBack2Pending"
       /\ from = SubtaskStateRunning /\ to = SubtaskStatePending

\* the state an update by id and exec_id sets, whatever the row's state
UnguardedTarget(r) ==
    IF r.op = "StartSubtask" THEN {SubtaskStateRunning}
    ELSE IF r.op = "FinishSubtask" THEN {SubtaskStateSucceed}
    ELSE IF r.op = "UpdateSubtaskStateAndError" THEN {r.arg[1]}
    ELSE {}

\* C31 (amended): FailSubtask, CancelSubtask, PauseSubtasks, ResumeSubtasks,
\* RunningSubtasksBack2Pending and UpdateSubtasksExecIDs never change the
\* state of a subtask in succeed, failed or canceled: they change pending or
\* running to failed, canceled or paused, paused to pending and running to
\* pending, and a reassignment changes no state. StartSubtask, FinishSubtask
\* and UpdateSubtaskStateAndError set the state of the row with their id and
\* exec_id, whatever state it is in, and of no other row.
C31_GuardedAbsorbing ==
    [][\A c \in StateChanges :
          \/ GuardedEdge(ret'.op, c[1].state, c[2].state)
          \/ /\ c[2].state \in UnguardedTarget(ret')
             /\ c[1].id = ret'.id
             /\ c[1].exec_id = ret'.exec]_vars

\* a cancel has returned on a node that holds a failed subtask of the task
\* and no subtask is pending or running
C31_Witness ==
    /\ ret.op = "CancelSubtask"
    /\ \E r \in subtasks :
          r.exec_id = ret.exec /\ r.task_key = ret.task /\ r.state = SubtaskStateFailed
    /\ \A r \in subtasks : r.state \notin SubtaskActive

\* C32: in the batch path the task row is updated only after every batch was
\* inserted: a step of a single scheduler's attempts changes the task row
\* only to (nextState, nextStep) and only when all len(subtasks) rows of
\* (task, nextStep) are persisted; an attempt that ends with an error, of the
\* count statement, of the count check or of a batch insert, leaves the task
\* table as it found it.
C32_UpdateAfterInserts ==
    [][LET c == call["s1"]
       IN /\ tasks' # tasks =>
                /\ pc["s1"] = "batch"
                /\ CountSubtasks(c.task.ID, c.nextStep) = Len(c.subtasks)
                /\ subtasks' = subtasks
                /\ \A r \in tasks' \ tasks :
                      r.state = c.nextState /\ r.step = c.nextStep
          /\ (pc["s1"] # "done" /\ pc'["s1"] = "done"
                /\ call'["s1"].result # NoError) =>
                tasks' = call'["s1"].pre.tasks]_vars

\* the second attempt of a call with two subtasks, after a first that failed
\* with one batch inserted, found that row, inserted the other and updated
\* the task row
C32_Witness ==
    LET c == call["s1"]
    IN /\ pc["s1"] = "done"
       /\ c.op = "SwitchTaskStepInBatch"
       /\ c.attempt = 2
       /\ c.prevResult = StoreError
       /\ c.existing = 1
       /\ Len(c.subtasks) = 2
       /\ c.wrote
       /\ \E r \in tasks : r.id = c.task.ID /\ r.state = c.nextState /\ r.step = c.nextStep

\* an attempt ended with the error of the count statement
C32_WitnessCountErr ==
    LET c == call["s1"]
    IN /\ pc["s1"] = "done"
       /\ c.result = StoreError
       /\ c.existing = -1
       /\ Len(c.subtasks) = 2

\* the task rows of the step with the step they had and the step they have
StepChanges ==
    {<<r, q>> \in tasks \X tasks' : r.id = q.id /\ r.step # q.step}

\* C33 (as stated): across any sequence and interleaving of SwitchTaskStep,
\* SwitchTaskStepInBatch and UpdateTaskAndAddSubTasks calls the step of a
\* live task row is non-negative and never decreases.
C33_StepMonotone ==
    [][/\ \A c \in StepChanges : c[2].step >= c[1].step
       /\ \A q \in tasks' : q.step >= 0]_vars

\* the step the call that writes in this step of the model was given
WrittenSteps ==
    IF Called("UpdateTaskAndAddSubTasks") THEN {ret'.arg[6]}
    ELSE {call[s].nextStep : s \in {x \in Schedulers : pc'[x] # pc[x]}}

\* C33 (amended): the store does not order the steps: a call that takes
\* effect sets the row's step to the step it was given (nextStep, or
\* task.Step for UpdateTaskAndAddSubTasks), lower than the row's or not; so
\* the step never decreases exactly when no caller passes a lower step, and
\* it is non-negative when the steps passed are.
C33_StepIsTheCallers ==
    [][/\ \A c \in StepChanges : c[2].step \in WrittenSteps
       /\ \A q \in tasks' : q.step \in CallerSteps]_vars

\* a switch from step 1 to step 0 took effect
C33_Witness ==
    \E s \in Schedulers :
        /\ pc[s] = "done"
        /\ call[s].result = NoError
        /\ call[s].affected = 1
        /\ call[s].task.Step = 1
        /\ call[s].nextStep = 0
        /\ \E r \in tasks : r.id = call[s].task.ID /\ r.step = 0

\* the writing statement of a transition of scheduler s1 takes effect in this
\* step: SwitchTaskStep commits after an update that matched, or the update
\* of SwitchTaskStepInBatch matches
TakesEffect ==
    \/ /\ pc["s1"] = "sts_updated" /\ pc'["s1"] = "done"
       /\ call'["s1"].result = NoError
    \/ /\ pc["s1"] = "batch" /\ pc'["s1"] = "done"
       /\ call'["s1"].affected = 1

\* the task rows before and after the step
TaskRowPairs == {<<r, q>> \in tasks \X tasks' : r.id = q.id}

\* what the transitions do to StartTime: one that takes effect on a pending
\* task sets it to the current time, one that takes effect from another
\* state and one that matches no row leave it
StartTimeEffect ==
    \A c \in TaskRowPairs :
        c[2].start_time =
            IF TakesEffect /\ c[1].id = call["s1"].task.ID
                  /\ c[1].state = TaskStatePending
               THEN <<now>> ELSE c[1].start_time

\* C34 (as stated): a step transition that takes effect on a pending task
\* sets StartTime, one that takes effect from another state or matches no
\* row leaves it unchanged, and a task that is still pending has no
\* StartTime.
C34_StartTimeOnLeavingPending ==
    [][/\ StartTimeEffect
       /\ \A q \in tasks' : q.state = TaskStatePending => q.start_time = <<>>]_vars

\* C34 (amended): the same effect on StartTime; and a pending task has a
\* StartTime only after a transition whose nextState is pending took effect
\* on it: from pending, which stamps StartTime without leaving pending, or
\* from another state, which keeps the StartTime the task had.
C34_StartTimeFromPending ==
    [][/\ StartTimeEffect
       /\ \A c \in TaskRowPairs :
             (c[2].state = TaskStatePending /\ c[2].start_time # <<>>) =>
                 \/ c[1].state = TaskStatePending
                       /\ c[1].start_time = c[2].start_time
                 \/ TakesEffect /\ call["s1"].nextState = TaskStatePending]_vars

\* a transition from pending took effect after time had passed, and the row
\* carries that time
C34_Witness ==
    /\ pc["s1"] = "done"
    /\ call["s1"].affected = 1
    /\ call["s1"].result = NoError
    /\ call["s1"].task.State = TaskStatePending
    /\ call["s1"].nextState = TaskStateRunning
    /\ now > 0
    /\ \E r \in tasks : r.id = 1 /\ r.state = TaskStateRunning /\ r.start_time = <<now>>

\* a transition from running took effect later than the task's StartTime
C34_WitnessRunning ==
    /\ pc["s1"] = "done"
    /\ call["s1"].affected = 1
    /\ call["s1"].result = NoError
    /\ call["s1"].task.State = TaskStateRunning
    /\ \E r \in tasks : r.id = 1 /\ r.start_time # <<>> /\ r.start_time # <<now>>

----
\* SpecInsert: a scheduler creates subtasks for task 1 through SwitchTaskStep,
\* SwitchTaskStepInBatch and UpdateTaskAndAddSubTasks, one call at a time. The
\* subtask objects it passes name either step and are pending subtasks of
\* task 1 or running subtasks of the other task.

\* the lists of n subtask objects a caller may pass
SubtaskObjects(n) ==
    {[i \in 1..n |->
        [NewSubtasks(t, p, n)[i] EXCEPT
            !.State = IF t = 1 THEN SubtaskStatePending ELSE SubtaskStateRunning]] :
        t \in TaskIDs, p \in CallerSteps}

\* the empty list and the lists of one subtask object
SubtaskObjectLists == SubtaskObjects(0) \cup SubtaskObjects(1)

NextInsert ==
    \/ GetTaskByID("s1", 1)
    \/ \E nextStep \in CallerSteps, list \in SubtaskObjectLists :
          SwitchTaskStep_update("s1", TaskStateRunning, nextStep, list)
    \/ SwitchTaskStep_insert("s1")
    \/ \E nextStep \in CallerSteps, list \in SubtaskObjectLists :
          SwitchTaskStepInBatch_count("s1", TaskStateRunning, nextStep, list)
    \/ SwitchTaskStepInBatch_insert("s1")
    \/ SwitchTaskStepInBatch_update("s1")
    \/ Return("s1")
    \/ /\ pc["s1"] = "idle"
       /\ \E task \in {t \in LegacyTasks : t.Error = NilErr /\ t.Step = 1},
             list \in SubtaskObjectLists, prevState \in PrevStates :
             UpdateTaskAndAddSubTasks(task, list, prevState, FALSE, "none")

SpecInsert == InitSeq /\ [][NextInsert]_vars

\* the subtask rows a step creates
InsertedRows == subtasks' \ subtasks

\* C35: every subtask row created by UpdateTaskAndAddSubTasks is in
\* revert_pending when the task object's State is reverting and in pending
\* otherwise, and belongs to task.ID; every row created by SwitchTaskStep or
\* SwitchTaskStepInBatch is in pending; no step creates a row in another state.
C35_InitialSubtaskState ==
    [][\A r \in InsertedRows :
          IF Called("UpdateTaskAndAddSubTasks")
             THEN /\ r.state = (IF ret'.arg[7] = TaskStateReverting
                                   THEN SubtaskStateRevertPending
                                   ELSE SubtaskStatePending)
                  /\ r.task_key = ret'.task
             ELSE /\ call["s1"].op \in {"SwitchTaskStep", "SwitchTaskStepInBatch"}
                  /\ r.state = SubtaskStatePending]_vars

\* UpdateTaskAndAddSubTasks has added a revert_pending subtask for a reverting
\* task, from an object that names a running subtask of the other task, next
\* to a pending subtask created earlier
C35_Witness ==
    /\ ret.op = "UpdateTaskAndAddSubTasks"
    /\ ret.arg[7] = TaskStateReverting
    /\ ret.result = NoError
    /\ \E r \in subtasks :
          /\ r.state = SubtaskStateRevertPending
          /\ r.task_key = 1
          /\ r.id = nextSubtaskID - 1
    /\ \E r \in subtasks : r.state = SubtaskStatePending

----
\* SpecSplit: splitSubtasks applied to any list of at most MaxRows + 1
\* subtasks whose Meta is empty, within the ceiling or one byte above it.

\* a Meta of k bytes
MetaOfSize(k, i) == [j \in 1..k |-> i]

\* the subtask lists with Meta sizes drawn from 0..maxSize + 1
SizedSubtasks(n) ==
    {[i \in 1..n |-> [NewSubtasks(1, 1, n)[i] EXCEPT !.Meta = MetaOfSize(sz[i], i)]] :
        sz \in [1..n -> 0..(maxSize + 1)]}

InitSplit ==
    /\ now = 0
    /\ tasks = {NewTaskRow(1, "m0")}
    /\ subtasks = {}
    /\ nextSubtaskID = 1
    /\ pc = [s \in Schedulers |-> "idle"]
    /\ call = [s \in Schedulers |-> EmptyCall]
    /\ \E n \in 0..(MaxRows + 1) : \E list \in SizedSubtasks(n) :
          ret = [NoRet EXCEPT !.op = "subtasks", !.arg = list]
    /\ planLen = [p \in 1..MaxStep |-> 0]
    /\ nextTaskID = 2
    /\ taskHistory = {}
    /\ subtaskHistory = {}
    /\ nodeMeta = {}
    /\ returned = {}

\* the call splitSubtasks(subtasks)
SplitSubtasksCall ==
    /\ ret.op = "subtasks"
    /\ ret' = [ret EXCEPT !.op = "splitSubtasks", !.val = splitSubtasks(ret.arg)]
    /\ UNCHANGED <<tasks, subtasks, nextSubtaskID, pc, call, planLen, rest>>

NextSplit == SplitSubtasksCall

SpecSplit == InitSplit /\ [][NextSplit]_vars

\* the batches one after the other
RECURSIVE Concatenation(_)
Concatenation(batches) ==
    IF batches = <<>> THEN <<>>
    ELSE Head(batches) \o Concatenation(Tail(batches))

\* the sum of the Meta sizes of a batch
RECURSIVE MetaSizes(_)
MetaSizes(batch) ==
    IF batch = <<>> THEN 0
    ELSE Len(Head(batch).Meta) + MetaSizes(Tail(batch))

\* the first subtask alone is larger than the ceiling
FirstIsOversize(list) == list # <<>> /\ Len(list[1].Meta) > maxSize

\* C36 as stated: the batches returned by splitSubtasks, one after the other,
\* are the input list; the Meta sizes of every batch sum to at most the
\* ceiling; no batch is empty.
C36_BoundedPartition ==
    ret.op = "splitSubtasks" =>
        /\ Concatenation(ret.val) = ret.arg
        /\ \A k \in 1..Len(ret.val) :
              /\ MetaSizes(ret.val[k]) <= maxSize
              /\ ret.val[k] # <<>>

\* C36 amended: the batches, one after the other, are the input list; a batch
\* of two or more subtasks is within the ceiling; a batch exceeds the ceiling
\* exactly when it is a single subtask whose Meta alone exceeds it; an empty
\* batch is returned exactly when the first subtask alone exceeds the ceiling,
\* and then as the first batch only.
C36_PartitionBoundedButForOversize ==
    ret.op = "splitSubtasks" =>
        /\ Concatenation(ret.val) = ret.arg
        /\ \A k \in 1..Len(ret.val) :
              /\ Len(ret.val[k]) > 1 => MetaSizes(ret.val[k]) <= maxSize
              /\ MetaSizes(ret.val[k]) > maxSize => Len(ret.val[k]) = 1
              /\ ret.val[k] = <<>> => k = 1
        /\ (\E k \in 1..Len(ret.val) : ret.val[k] = <<>>) <=> FirstIsOversize(ret.arg)
        /\ \A i \in 1..Len(ret.arg) :
              Len(ret.arg[i].Meta) > maxSize => \E k \in 1..Len(ret.val) : ret.val[k] = <<ret.arg[i]>>

\* a list was split into a batch of two subtasks and a batch of one oversize
\* subtask
C36_Witness ==
    /\ ret.op = "splitSubtasks"
    /\ Len(ret.val) >= 2
    /\ \E k \in 1..Len(ret.val) : Len(ret.val[k]) = 2 /\ MetaSizes(ret.val[k]) = maxSize
    /\ \E k \in 1..Len(ret.val) : MetaSizes(ret.val[k]) > maxSize

\* a list whose first subtask is oversize was split, and the first batch is empty
C36_WitnessEmpty ==
    /\ ret.op = "splitSubtasks"
    /\ FirstIsOversize(ret.arg)
    /\ ret.val[1] = <<>>

----
\* SpecArchive: a scheduler switches task 1 to step 1 once, into running or
\* into a terminal state, and tasks are moved to the history in whatever state
\* they are; a statement of the move may fail.
NextArchive ==
    \/ GetTaskByID("s1", 1)
    \/ /\ call["s1"].task.Step = StepInit
       /\ \E nextState \in {TaskStateRunning, TaskStateSucceed, TaskStateReverted} :
             SwitchTaskStep_update("s1", nextState, 1, PlannedList(1))
    \/ SwitchTaskStep_insert("s1")
    \/ Return("s1")
    \/ \E t1 \in TransferredTasks, fault \in TransferFaults :
          TransferTasks2History(<<t1>>, fault)

SpecArchive == InitExec /\ [][NextArchive]_vars

\* C37 as stated: every row of the task history is in a terminal state.
C37_OnlyTerminalArchived ==
    \A r \in taskHistory : r.state \in TerminalTaskStates

\* the live rows a committed TransferTasks2History(list) copies: the rows of
\* the named tasks, with the Meta of the task object
ArchivedBy(list) ==
    UNION {{[r EXCEPT !.meta = list[i].Meta] : r \in {q \in tasks : q.id = list[i].ID}} :
              i \in 1..Len(list)}

\* C37 amended: TransferTasks2History copies the live row of every task it is
\* given to the history with the state the row has, terminal or not, when it
\* returns nil, and copies nothing when it returns an error; no other
\* operation adds a row to the task history or removes one.
C37_ArchivedInAnyState ==
    [][IF Called("TransferTasks2History") /\ ret'.result = NoError
          THEN taskHistory' = taskHistory \cup ArchivedBy(ret'.arg)
          ELSE taskHistory' = taskHistory]_vars

\* TransferTasks2History has returned nil for the running task 1, which is in
\* the history as running and no longer live
C37_Witness ==
    /\ ret.op = "TransferTasks2History"
    /\ ret.result = NoError
    /\ ret.val = <<"none">>
    /\ \E i \in 1..Len(ret.arg) : ret.arg[i].ID = 1
    /\ \E r \in taskHistory : r.id = 1 /\ r.state = TaskStateRunning
    /\ \A r \in tasks : r.id # 1

\* a task that was switched to succeed is in the history
C37_WitnessTerminal ==
    /\ ret.op = "TransferTasks2History"
    /\ \E r \in taskHistory : r.id = 1 /\ r.state = TaskStateSucceed

\* C38: every subtask row created by SwitchTaskStep or SwitchTaskStepInBatch
\* (task, nextState, nextStep, subtasks) belongs to task.ID and to nextStep,
\* whatever subtask objects the caller passes, so that the rows counted for
\* (task.ID, nextStep) are the rows created by the calls for that step.
C38_RowsForTheNewStep ==
    [][~Called("UpdateTaskAndAddSubTasks") =>
          /\ \A r \in InsertedRows :
                /\ r.task_key = call["s1"].task.ID
                /\ r.step = call["s1"].nextStep
          /\ LET counted(tbl) == {r \in tbl : /\ r.task_key = call["s1"].task.ID
                                               /\ r.step = call["s1"].nextStep}
             IN Cardinality(counted(subtasks')) =
                   Cardinality(counted(subtasks)) + Cardinality(InsertedRows)]_vars

----
\* GetSubtasksWithHistory: one transaction with a select on the live subtask
\* table and a select on the subtask history.

\* a transaction whose statements each read the tables as they are then
ReadViewOfStatement(s) ==
    [subtasks |-> subtasks, subtaskHistory |-> subtaskHistory]

\* the tables the statements of the open transaction of s read: the
\* committed tables as they were when the transaction began
ReadView(s) == call[s].pre

\* where task_key = taskID and step = step
OfTaskAndStep(tbl, taskID, step) ==
    {r \in tbl : r.task_key = taskID /\ r.step = step}

\* begin
GetSubtasksWithHistory_begin(s, taskID, step) ==
    /\ pc[s] = "idle"
    /\ call' = [call EXCEPT ![s] =
          [EmptyCall EXCEPT !.op = "GetSubtasksWithHistory",
                            !.task = [NoTask EXCEPT !.ID = taskID],
                            !.nextStep = step,
                            !.pre = [subtasks |-> subtasks,
                                     subtaskHistory |-> subtaskHistory]]]
    /\ pc' = [pc EXCEPT ![s] = "gs_begun"]
    /\ ret' = NoRet
    /\ UNCHANGED <<tasks, subtasks, nextSubtaskID, planLen, rest>>

\* rs = select ... from tidb_background_subtask
GetSubtasksWithHistory_live(s) ==
    /\ pc[s] = "gs_begun"
    /\ call' = [call EXCEPT ![s].batches =
          <<OfTaskAndStep(ReadView(s).subtasks, call[s].task.ID, call[s].nextStep)>>]
    /\ pc' = [pc EXCEPT ![s] = "gs_live"]
    /\ ret' = NoRet
    /\ UNCHANGED <<tasks, subtasks, nextSubtaskID, planLen, rest>>

\* rsFromHistory = select ... from tidb_background_subtask_history; rs =
\* append(rs, rsFromHistory...); commit. The call also notes whether the
\* history table held rows of the task at this statement.
GetSubtasksWithHistory_history(s) ==
    /\ pc[s] = "gs_live"
    /\ call' = [call EXCEPT
          ![s].batches = Append(@,
              OfTaskAndStep(ReadView(s).subtaskHistory, call[s].task.ID, call[s].nextStep)),
          ![s].cnt0 = Cardinality(
              OfTaskAndStep(subtaskHistory, call[s].task.ID, call[s].nextStep)),
          ![s].result = NoError]
    /\ pc' = [pc EXCEPT ![s] = "done"]
    /\ ret' = NoRet
    /\ UNCHANGED <<tasks, subtasks, nextSubtaskID, planLen, rest>>

\* SpecRead: a scheduler switches task 1 to step 1 once; task 1 is moved to
\* the history, and a statement of the move may fail; a reader lists the
\* subtasks of a task and step with GetSubtasksWithHistory, its statements
\* interleaved with the other calls.
NextRead ==
    \/ GetTaskByID("s1", 1)
    \/ /\ call["s1"].task.Step = StepInit
       /\ SwitchTaskStep_update("s1", TaskStateRunning, 1, PlannedList(1))
    \/ SwitchTaskStep_insert("s1")
    \/ Return("s1")
    \/ \E t1 \in TransferredTasks, fault \in TransferFaults :
          TransferTasks2History(<<t1>>, fault)
    \/ \E taskID \in TaskIDs, step \in CallerSteps :
          GetSubtasksWithHistory_begin("s2", taskID, step)
    \/ GetSubtasksWithHistory_live("s2")
    \/ GetSubtasksWithHistory_history("s2")
    \/ Return("s2")

SpecRead == InitExec /\ [][NextRead]_vars

\* GetSubtasksWithHistory has returned to s
ReadReturned(s) == pc[s] = "done" /\ call[s].op = "GetSubtasksWithHistory"

\* C39: whatever TransferTasks2History does between the statements of
\* GetSubtasksWithHistory(taskID, step), the call returns every subtask of
\* (taskID, step) that existed, live or archived, when it began, and returns
\* each once: from the live table or from the history, never from both.
C39_EachSubtaskOnce ==
    ReadReturned("s2") =>
        LET c == call["s2"]
            fromLive == IDsOf(c.batches[1])
            fromHistory == IDsOf(c.batches[2])
            existed == IDsOf(OfTaskAndStep(c.pre.subtasks \cup c.pre.subtaskHistory,
                                           c.task.ID, c.nextStep))
        IN /\ fromLive \cap fromHistory = {}
           /\ fromLive \cup fromHistory = existed
           /\ Cardinality(c.batches[1]) = Cardinality(fromLive)
           /\ Cardinality(c.batches[2]) = Cardinality(fromHistory)

\* the subtasks were live when the call began and in the history when it
\* read the history; the call returned them from the live table only
C39_Witness ==
    /\ ReadReturned("s2")
    /\ call["s2"].batches[1] # {}
    /\ call["s2"].batches[2] = {}
    /\ call["s2"].cnt0 = Cardinality(call["s2"].batches[1])

----
\* The row count of a subtask and the removal of the subtasks of a task.

\* an update that also clears the owner
SetRowCountAndOwner(r, rowCount) ==
    [r EXCEPT !.summary = <<rowCount>>, !.exec_id = ""]

\* set summary = json_set(summary, '$.row_count', rowCount)
SetRowCount(r, rowCount) == [r EXCEPT !.summary = <<rowCount>>]

\* UpdateSubtaskRowCount: one update by id
UpdateSubtaskRowCount(subtaskID, rowCount) ==
    /\ subtasks' = {IF r.id = subtaskID THEN SetRowCount(r, rowCount) ELSE r :
                       r \in subtasks}
    /\ ret' = [NoRet EXCEPT !.op = "UpdateSubtaskRowCount", !.id = subtaskID,
                            !.arg = <<rowCount>>, !.result = NoError]
    /\ UNCHANGED <<tasks, nextSubtaskID, pc, call, planLen, rest>>

\* DeleteSubtasksByTaskID: one delete by task_key
DeleteSubtasksByTaskID(taskID) ==
    /\ subtasks' = {r \in subtasks : r.task_key # taskID}
    /\ ret' = [NoRet EXCEPT !.op = "DeleteSubtasksByTaskID", !.task = taskID,
                            !.result = NoError]
    /\ UNCHANGED <<tasks, nextSubtaskID, pc, call, planLen, rest>>

\* SpecFrame: the executors, the balancer and the scheduler work on two
\* subtasks of task 1 that carry a summary; the subtasks of a task may be
\* deleted and task 1 may be moved to the history.
FrameTables ==
    {{[id |-> i, step |-> 1, task_key |-> 1, exec_id |-> ex[i],
       meta |-> SubtaskMeta(i), state |-> SubtaskStatePending,
       concurrency |-> 1, ordinal |-> i, error |-> <<>>,
       state_update_time |-> <<>>, summary |-> <<>>] : i \in 1..2} :
        ex \in {<<"n1", "n2">>}}

InitFrame ==
    /\ now = 0
    /\ tasks = {NewTaskRow(1, "m0")}
    /\ subtasks \in FrameTables
    /\ nextSubtaskID = 3
    /\ pc = [s \in Schedulers |-> "idle"]
    /\ call = [s \in Schedulers |-> EmptyCall]
    /\ planLen = [p \in 1..MaxStep |-> 0]
    /\ ret = NoRet
    /\ nextTaskID = 2
    /\ taskHistory = {}
    /\ subtaskHistory = {}
    /\ nodeMeta = {[host |-> "n1", role |-> "", cpu_count |-> 1]}
    /\ returned = {}

NextFrame ==
    \/ \E id \in 1..2, e \in Nodes : StartSubtask(id, e)
    \/ \E r \in subtasks, e \in Nodes : FinishSubtask(e, r.id, r.meta)
    \/ \E id \in 1..2, e \in Nodes : UpdateSubtaskStateAndError(e, id, SubtaskStateFailed, NilErr)
    \/ \E e \in Nodes : FailSubtask(e, 1, SubtaskError)
    \/ \E e \in Nodes : CancelSubtask(e, 1)
    \/ \E e \in Nodes : PauseSubtasks(e, 1)
    \/ ResumeSubtasks(1)
    \/ \E o \in RevertedSubtasks : RunningSubtasksBack2Pending(<<o>>)
    \/ \E o \in BalancedSubtasks : UpdateSubtasksExecIDs(<<o>>)
    \/ \E id \in {1, 3} : UpdateSubtaskRowCount(id, 7)
    \/ \E taskID \in TaskIDs : DeleteSubtasksByTaskID(taskID)
    \/ \E t \in {o \in TransferredTasks : o.Meta = "m0"} :
          TransferTasks2History(<<t>>, "none")

SpecFrame == InitFrame /\ [][NextFrame]_vars

\* the operations that work on subtask rows without moving or removing them
StateOnlyOps ==
    {"StartSubtask", "FinishSubtask", "UpdateSubtaskStateAndError", "FailSubtask",
     "CancelSubtask", "PauseSubtasks", "ResumeSubtasks",
     "RunningSubtasksBack2Pending", "UpdateSubtaskRowCount"}

\* the columns that say whose a subtask is and where it stands in its step
Identity(r) == <<r.id, r.exec_id, r.task_key, r.step, r.ordinal>>

\* the subtask rows before and after a step, paired by id
SubtaskRowPairs == {c \in subtasks \X subtasks' : c[1].id = c[2].id}

\* C40: StartSubtask, FinishSubtask, UpdateSubtaskStateAndError, FailSubtask,
\* CancelSubtask, PauseSubtasks, ResumeSubtasks, RunningSubtasksBack2Pending
\* and UpdateSubtaskRowCount change no row's exec_id, task id, step or
\* ordinal and neither add nor remove a row; a row's exec_id changes only in
\* UpdateSubtasksExecIDs; a live row disappears only in
\* DeleteSubtasksByTaskID or TransferTasks2History.
C40_IdentityFrame ==
    [][/\ ret'.op \in StateOnlyOps =>
             {Identity(r) : r \in subtasks'} = {Identity(r) : r \in subtasks}
       /\ (\E c \in SubtaskRowPairs : c[1].exec_id # c[2].exec_id) =>
             Called("UpdateSubtasksExecIDs")
       /\ (IDsOf(subtasks) \ IDsOf(subtasks') # {}) =>
             ret'.op \in {"DeleteSubtasksByTaskID", "TransferTasks2History"}
       /\ \A c \in SubtaskRowPairs :
             <<c[1].task_key, c[1].step, c[1].ordinal>> =
                <<c[2].task_key, c[2].step, c[2].ordinal>>]_vars

\* UpdateSubtaskRowCount has written the summary of a running subtask that
\* the balancer moved to another node before
C40_Witness ==
    /\ ret.op = "UpdateSubtaskRowCount"
    /\ \E r \in subtasks :
          /\ r.id = ret.id
          /\ r.summary = ret.arg
          /\ r.state = SubtaskStateRunning
          /\ r.exec_id = "n2"
          /\ r.id = 1

====
